---- MODULE Spec2Model ----
(***************************************************************************)
(* Model of the normalization / derivation / aggregation engine of the     *)
(* patient no-show dashboard                                               *)
(* (src/patient-dashboard/src/PatientNoShowDashboard.jsx, the component    *)
(* that starts at line 910).                                               *)
(*                                                                         *)
(* JavaScript values are tagged records: Undef, Null, Num(n), Str(s), NaN. *)
(* A string is a sequence of characters (one-character strings, plus the   *)
(* two tokens "NBSP" and "BOM" for U+00A0 and U+FEFF), so that trimming,   *)
(* header normalization, number parsing and date parsing are computed and  *)
(* not assumed.  A row (a JS object) is a sequence of fields               *)
(* [k |-> key, v |-> value] in insertion order, the order of Object.keys.  *)
(* Numbers are integers: the cell vocabulary holds only integer literals   *)
(* (optionally written with a ".0" tail), and timestamps are counted in    *)
(* seconds (every modelled timestamp has zero milliseconds).               *)
(***************************************************************************)
EXTENDS Integers, Sequences, FiniteSets, TLC

VARIABLES
    csvData,    \* useState(null): Null, or Arr(the normalized rows)
    filters,    \* useState({ageGroup, smsReceived, week})
    isLoading,  \* useState(false)
    reader,     \* the FileReader / loader timer: "idle", "reading", "timer"
    tz,         \* the browser's time zone, hours east of UTC
    lenient,    \* whether the browser's Date parses "YYYY-MM-DD HH:mm:ss"
    row,        \* feature-deriver harness: the row under construction
    memo,       \* the values the useMemo stages hold
    rawRow,     \* feature-deriver harness: the row as it was before parseCSV
    stage,      \* feature-deriver harness: "raw", "normalized", "resolved"
    waiting,    \* feature-deriver harness: the result of getWaitingDays(row)
    probe       \* insight harness: the inputs of a derivation and its result

vars == <<csvData, filters, isLoading, reader, tz, lenient, memo, row, rawRow, stage, waiting, probe>>

-----------------------------------------------------------------------------
(* JavaScript values *)

Undef == [t |-> "undefined"]
Null == [t |-> "null"]
NaN == [t |-> "NaN"]
Num(n) == [t |-> "num", n |-> n]
Str(s) == [t |-> "str", s |-> s]
\* an array, held with its elements as a sequence
Arr(a) == [t |-> "array", a |-> a]

IsNum(v) == v.t = "num"
IsStr(v) == v.t = "str"

\* ToBoolean: undefined, null, NaN, 0 and "" are falsy.
Truthy(v) ==
    CASE v.t = "num" -> v.n # 0
      [] v.t = "str" -> v.s # <<>>
      [] OTHER -> FALSE

\* a || b
Or(a, b) == IF Truthy(a) THEN a ELSE b

-----------------------------------------------------------------------------
(* Strings *)

Digits == <<"0", "1", "2", "3", "4", "5", "6", "7", "8", "9">>
UpperAlphabet == <<"A", "B", "C", "D", "E", "F", "G", "H", "I", "J", "K", "L", "M",
                   "N", "O", "P", "Q", "R", "S", "T", "U", "V", "W", "X", "Y", "Z">>
LowerAlphabet == <<"a", "b", "c", "d", "e", "f", "g", "h", "i", "j", "k", "l", "m",
                   "n", "o", "p", "q", "r", "s", "t", "u", "v", "w", "x", "y", "z">>

Range(f) == {f[i] : i \in DOMAIN f}

DigitSet == Range(Digits)
UpperSet == Range(UpperAlphabet)
LowerSet == Range(LowerAlphabet)
DigitValue == [c \in DigitSet |-> (CHOOSE i \in 1..10 : Digits[i] = c) - 1]
LowerOf == [c \in UpperSet |-> LowerAlphabet[CHOOSE i \in 1..26 : UpperAlphabet[i] = c]]

IsDigit(c) == c \in DigitSet
DigitVal(c) == DigitValue[c]

\* The WhiteSpace and LineTerminator characters of the vocabulary; U+00A0 and
\* U+FEFF are WhiteSpace in ECMAScript, so String.prototype.trim removes them.
IsSpace(c) == c \in {" ", "\t", "NBSP", "BOM"}

RECURSIVE TrimStart(_)
TrimStart(s) ==
    IF s # <<>> /\ IsSpace(Head(s)) THEN TrimStart(Tail(s)) ELSE s

RECURSIVE TrimEnd(_)
TrimEnd(s) ==
    IF s # <<>> /\ IsSpace(s[Len(s)]) THEN TrimEnd(SubSeq(s, 1, Len(s) - 1)) ELSE s

\* String.prototype.trim
Trim(s) == TrimEnd(TrimStart(s))

\* String.prototype.toLowerCase, one character
ToLowerChar(c) == IF c \in UpperSet THEN LowerOf[c] ELSE c

ToLowerCase(s) == [i \in 1..Len(s) |-> ToLowerChar(s[i])]

\* s.replace(/c/g, d): every occurrence of the character c becomes d
ReplaceAll(s, c, d) == [i \in 1..Len(s) |-> IF s[i] = c THEN d ELSE s[i]]

\* s.replace(/c/g, '')
RemoveAll(s, c) == LET Keep(x) == x # c IN SelectSeq(s, Keep)

\* s.includes(c) for a one-character c
Includes(s, c) == \E i \in 1..Len(s) : s[i] = c

\* s.replace(c, d) with a string pattern: the first occurrence only
ReplaceFirst(s, c, d) ==
    IF Includes(s, c)
    THEN LET i == CHOOSE j \in 1..Len(s) : s[j] = c /\ \A k \in 1..(j - 1) : s[k] # c
         IN [j \in 1..Len(s) |-> IF j = i THEN d ELSE s[j]]
    ELSE s

RECURSIVE ParseNat(_)
\* the value of a non-empty sequence of decimal digits
ParseNat(s) ==
    IF Len(s) = 1 THEN DigitVal(s[1])
    ELSE 10 * ParseNat(SubSeq(s, 1, Len(s) - 1)) + DigitVal(s[Len(s)])

AllDigits(s) == s # <<>> /\ \A i \in 1..Len(s) : IsDigit(s[i])

RECURSIVE NatToStr(_)
NatToStr(n) ==
    IF n < 10 THEN <<Digits[n + 1]>>
    ELSE NatToStr(n \div 10) \o <<Digits[(n % 10) + 1]>>

\* String(val) (for null and undefined: "null", "undefined")
String(v) ==
    CASE v.t = "str" -> v.s
      [] v.t = "num" -> IF v.n < 0 THEN <<"-">> \o NatToStr(-v.n) ELSE NatToStr(v.n)
      [] v.t = "null" -> <<"n", "u", "l", "l">>
      [] v.t = "NaN" -> <<"N", "a", "N">>
      [] OTHER -> <<"u", "n", "d", "e", "f", "i", "n", "e", "d">>

\* An unsigned decimal literal of the vocabulary: digits, optionally followed
\* by "." and zeros.  (Literals with a non-zero fraction, an exponent, a hex
\* prefix or "Infinity" are outside the modelled cell vocabulary.)
IsUnsignedLiteral(s) ==
    \/ AllDigits(s)
    \/ \E p \in 2..Len(s) :
          /\ s[p] = "."
          /\ AllDigits(SubSeq(s, 1, p - 1))
          /\ \A i \in (p + 1)..Len(s) : s[i] = "0"

UnsignedValue(s) ==
    IF AllDigits(s) THEN ParseNat(s)
    ELSE ParseNat(SubSeq(s, 1, (CHOOSE p \in 2..Len(s) : s[p] = ".") - 1))

\* Number(s) for a string: whitespace is trimmed, "" is 0, a signed decimal
\* literal is its value, anything else is NaN.
Number(s) ==
    LET u == Trim(s)
        signed == u # <<>> /\ Head(u) \in {"-", "+"}
        body == IF signed THEN Tail(u) ELSE u
    IN  IF u = <<>> THEN Num(0)
        ELSE IF ~IsUnsignedLiteral(body) THEN NaN
        ELSE IF signed /\ Head(u) = "-" THEN Num(-UnsignedValue(body))
        ELSE Num(UnsignedValue(body))

-----------------------------------------------------------------------------
(* Dates: new Date(string), getTime, getDay, setDate, getFullYear/Month/Date *)

SecondsPerHour == 60 * 60
SecondsPerDay == 24 * SecondsPerHour

IsLeap(y) == (y % 4 = 0 /\ y % 100 # 0) \/ y % 400 = 0

DaysInMonth(y, m) ==
    IF m = 2 THEN (IF IsLeap(y) THEN 29 ELSE 28)
    ELSE IF m \in {4, 6, 9, 11} THEN 30 ELSE 31

RECURSIVE DaysBeforeMonth(_, _)
DaysBeforeMonth(y, m) ==
    IF m = 1 THEN 0 ELSE DaysBeforeMonth(y, m - 1) + DaysInMonth(y, m - 1)

\* leap years in 1..(y - 1)
LeapsBefore(y) == ((y - 1) \div 4) - ((y - 1) \div 100) + ((y - 1) \div 400)

\* days from 1970-01-01 to y-m-d
EpochDay(y, m, d) ==
    365 * (y - 1970) + (LeapsBefore(y) - LeapsBefore(1970)) + DaysBeforeMonth(y, m) + d - 1

\* the civil date of epoch day n (years of the vocabulary: 1970..2037)
CivilFromDays(n) ==
    LET y == CHOOSE yy \in 1969..2038 : EpochDay(yy, 1, 1) <= n /\ n < EpochDay(yy + 1, 1, 1)
        m == CHOOSE mm \in 1..12 :
                 /\ EpochDay(y, mm, 1) <= n
                 /\ n < EpochDay(y, mm, 1) + DaysInMonth(y, mm)
    IN  [y |-> y, m |-> m, d |-> n - EpochDay(y, m, 1) + 1]

\* "YYYY-MM-DD" at positions 1..10
HasDateAt1(s) ==
    /\ Len(s) >= 10
    /\ AllDigits(SubSeq(s, 1, 4)) /\ s[5] = "-"
    /\ AllDigits(SubSeq(s, 6, 7)) /\ s[8] = "-"
    /\ AllDigits(SubSeq(s, 9, 10))

\* "HH:mm:ss" at positions 12..19
HasTimeAt12(s) ==
    /\ Len(s) >= 19
    /\ AllDigits(SubSeq(s, 12, 13)) /\ s[14] = ":"
    /\ AllDigits(SubSeq(s, 15, 16)) /\ s[17] = ":"
    /\ AllDigits(SubSeq(s, 18, 19))

\* new Date(s).getTime() in seconds, or NaN for an Invalid Date.
\*   "YYYY-MM-DD"            ISO date-only form: UTC midnight
\*   "YYYY-MM-DDTHH:mm:ss"   ISO date-time form without offset: local time
\*   "YYYY-MM-DDTHH:mm:ssZ"  ISO date-time form: UTC
\*   "YYYY-MM-DD HH:mm:ss"   not an ISO form: implementation-defined; parsed
\*                           as local time by a lenient engine, Invalid Date
\*                           by a strict one (the case the comment at
\*                           toDate names)
\* Any other string of the vocabulary is no date.
DateParse(s, zone, legacy) ==
    IF ~HasDateAt1(s) THEN NaN
    ELSE
      LET y == ParseNat(SubSeq(s, 1, 4))
          m == ParseNat(SubSeq(s, 6, 7))
          d == ParseNat(SubSeq(s, 9, 10))
          dateOk == m \in 1..12 /\ d >= 1 /\ d <= DaysInMonth(y, m) /\ y \in 1970..2037
          hasTime == Len(s) \in {19, 20} /\ s[11] \in {"T", " "} /\ HasTimeAt12(s)
          utc == Len(s) = 20
          hh == ParseNat(SubSeq(s, 12, 13))
          mi == ParseNat(SubSeq(s, 15, 16))
          ss == ParseNat(SubSeq(s, 18, 19))
      IN  IF ~dateOk THEN NaN
          ELSE IF Len(s) = 10 THEN Num(EpochDay(y, m, d) * SecondsPerDay)
          ELSE IF ~hasTime THEN NaN
          ELSE IF utc /\ s[20] # "Z" THEN NaN
          ELSE IF hh > 23 \/ mi > 59 \/ ss > 59 THEN NaN
          ELSE IF s[11] = " " /\ ~legacy THEN NaN
          ELSE Num(EpochDay(y, m, d) * SecondsPerDay + hh * SecondsPerHour + mi * 60 + ss
                   - (IF utc THEN 0 ELSE zone * SecondsPerHour))

\* Date.prototype.getDay of the time value t (seconds): 0 = Sunday .. 6 = Saturday,
\* in local time.  1970-01-01 was a Thursday.
LocalDay(t, zone) == (t + zone * SecondsPerHour) \div SecondsPerDay
GetDay(t, zone) == (LocalDay(t, zone) + 4) % 7

Pad2(n) == IF n < 10 THEN <<"0">> \o NatToStr(n) ELSE NatToStr(n)

-----------------------------------------------------------------------------
(* Rows: JS objects with string keys, in insertion order *)

HasKey(r, k) == \E i \in 1..Len(r) : r[i].k = k

\* r[k], r.k
Get(r, k) ==
    IF HasKey(r, k) THEN r[CHOOSE i \in 1..Len(r) : r[i].k = k].v ELSE Undef

\* r[k] = v: an existing key keeps its place, a new key goes last
Set(r, k, v) ==
    IF HasKey(r, k)
    THEN [i \in 1..Len(r) |-> IF r[i].k = k THEN [k |-> k, v |-> v] ELSE r[i]]
    ELSE Append(r, [k |-> k, v |-> v])

\* the property names the code reads
kWaitingDays == <<"W", "a", "i", "t", "i", "n", "g", "D", "a", "y", "s">>
kAwaitingTime == <<"A", "w", "a", "i", "t", "i", "n", "g", "T", "i", "m", "e">>
kAwaitingDays == <<"A", "w", "a", "i", "t", "i", "n", "g", "D", "a", "y", "s">>
kScheduledDay == <<"S", "c", "h", "e", "d", "u", "l", "e", "d", "D", "a", "y">>
kScheduledDate == <<"S", "c", "h", "e", "d", "u", "l", "e", "d", "D", "a", "t", "e">>
kScheduled == <<"S", "c", "h", "e", "d", "u", "l", "e", "d">>
kScheduled_Day == <<"S", "c", "h", "e", "d", "u", "l", "e", "d", "_", "D", "a", "y">>
kAppointmentDay == <<"A", "p", "p", "o", "i", "n", "t", "m", "e", "n", "t", "D", "a", "y">>
kAppointmentDate == <<"A", "p", "p", "o", "i", "n", "t", "m", "e", "n", "t", "D", "a", "t", "e">>
kAppointment == <<"A", "p", "p", "o", "i", "n", "t", "m", "e", "n", "t">>
kAppointment_Day == <<"A", "p", "p", "o", "i", "n", "t", "m", "e", "n", "t", "_", "D", "a", "y">>
kWeek == <<"W", "e", "e", "k">>
kSMS_received == <<"S", "M", "S", "_", "r", "e", "c", "e", "i", "v", "e", "d">>
kNoShow == <<"N", "o", "S", "h", "o", "w">>
kAgeGroup == <<"A", "g", "e", "G", "r", "o", "u", "p">>

\* string literals of the code
sAll == <<"A", "l", "l">>
sUnknown == <<"U", "n", "k", "n", "o", "w", "n">>
sunknown == <<"u", "n", "k", "n", "o", "w", "n">>
swaitingdays == ToLowerCase(kWaitingDays)
sawaitingtime == ToLowerCase(kAwaitingTime)
sawaitingdays == ToLowerCase(kAwaitingDays)
sscheduledday == ToLowerCase(kScheduledDay)
sappointmentday == ToLowerCase(kAppointmentDay)

-----------------------------------------------------------------------------
(* Helper functions (type-safe parsing) *)

\* Number.isNaN(n) ? null : n
NullIfNaN(n) == IF n = NaN THEN Null ELSE n

\* if (s === '') return null; ... Number(s) ...
numOfTrimmed(s) == IF s = <<>> THEN Null ELSE NullIfNaN(Number(s))

\* toNum that reads strings only
toNum_stringsOnly(val) ==
    IF ~IsStr(val) THEN Null ELSE numOfTrimmed(Trim(String(val)))

toNum(val) ==
    IF val = Null \/ val = Undef THEN Null ELSE numOfTrimmed(Trim(String(val)))

\* toBin01 that keeps every value as its trimmed string
bin01Of_keepsRaw(n, val) ==
    Str(Trim(String(IF val = Null \/ val = Undef THEN Str(<<>>) ELSE val)))

\* the three returns of toBin01, n being toNum(val)
bin01Of(n, val) ==
    IF n = Num(1) THEN Str(<<"1">>)
    ELSE IF n = Num(0) THEN Str(<<"0">>)
    ELSE Str(Trim(String(IF val = Null \/ val = Undef THEN Str(<<>>) ELSE val)))

toBin01(val) == bin01Of(toNum(val), val)

\* /[^a-z0-9]/
IsLowerAlnum(c) == c \in LowerSet \/ IsDigit(c)

normKey(k) == SelectSeq(ToLowerCase(k), IsLowerAlnum)

\* Object.keys(row).find(k => normKey(k) === targetNorm), then row[key]
\* (a key that is the empty string is falsy, and gives undefined)
pickField(r, targetNorm) ==
    LET hits == {i \in 1..Len(r) : normKey(r[i].k) = targetNorm}
    IN  IF hits = {} THEN Undef
        ELSE LET i == CHOOSE j \in hits : \A h \in hits : j <= h
             IN  IF r[i].k = <<>> THEN Undef ELSE r[i].v

\* the ISO-ish rewriting of toDate
isoOf(s) ==
    IF Includes(s, " ") /\ ~Includes(s, "T") THEN ReplaceFirst(s, " ", "T") ELSE s

\* toDate from its trimmed string on
dateOfTrimmed(s, zone, legacy) ==
    IF s = <<>> THEN Null ELSE NullIfNaN(DateParse(isoOf(s), zone, legacy))

toDate(raw, zone, legacy) ==
    IF raw = Null \/ raw = Undef THEN Null
    ELSE dateOfTrimmed(Trim(String(raw)), zone, legacy)

\* the candidates of getWaitingDays, in the order the loop tries them
candidates(r) ==
    << Get(r, kWaitingDays),
       Get(r, kAwaitingTime),
       Get(r, kAwaitingDays),
       pickField(r, swaitingdays),
       pickField(r, sawaitingtime),
       pickField(r, sawaitingdays) >>

\* for (const v of candidates) { const n = toNum(v); if (n !== null) return n; }
\* Null when the loop ends without returning
FirstNumber(cs) ==
    LET hits == {i \in 1..Len(cs) : toNum(cs[i]) # Null}
    IN  IF hits = {} THEN Null
        ELSE toNum(cs[CHOOSE j \in hits : \A h \in hits : j <= h])

scheduledRaw(r) ==
    Or(Or(Or(Or(Get(r, kScheduledDay), Get(r, kScheduledDate)), Get(r, kScheduled)),
          Get(r, kScheduled_Day)), pickField(r, sscheduledday))

apptRaw(r) ==
    Or(Or(Or(Or(Get(r, kAppointmentDay), Get(r, kAppointmentDate)), Get(r, kAppointment)),
          Get(r, kAppointment_Day)), pickField(r, sappointmentday))

\* clampDays without the clamp
clampDays_none(diffDays) == diffDays

\* diffDays < 0 ? 0 : diffDays
clampDays(diffDays) == IF diffDays < 0 THEN 0 ELSE diffDays

\* if (scheduled && appt) { ... Math.floor(diffMs / day) ... } return null
daysBetween(scheduled, appt) ==
    IF scheduled # Null /\ appt # Null
    THEN Num(clampDays((appt.n - scheduled.n) \div SecondsPerDay))
    ELSE Null

\* the fallback of getWaitingDays: ScheduledDay -> AppointmentDay
DateFallback(r, zone, legacy) ==
    daysBetween(toDate(scheduledRaw(r), zone, legacy), toDate(apptRaw(r), zone, legacy))

\* the loop's return if it returns, else the fallback
firstOr(n, fallback) == IF n # Null THEN n ELSE fallback

\* getWaitingDays with the date difference tried before the candidates
getWaitingDays_datesFirst(r, zone, legacy) ==
    firstOr(DateFallback(r, zone, legacy), FirstNumber(candidates(r)))

getWaitingDays(r, zone, legacy) ==
    firstOr(FirstNumber(candidates(r)), DateFallback(r, zone, legacy))

-----------------------------------------------------------------------------
(* parseCSV *)

\* Papa.parse option transformHeader
transformHeader(h) == Trim(ReplaceAll(RemoveAll(h, "BOM"), "NBSP", " "))

\* Papa.parse option transform (every cell is a string: dynamicTyping is off)
transform(v) == Trim(ReplaceAll(v, "NBSP", " "))

\* Papa.parse(text, {header: true, ...}).data for a file given as its header
\* cells and its non-empty lines' cells: one object per line, keyed by the
\* transformed headers in column order; a line shorter than the header
\* leaves the missing keys absent.
PapaData(file) ==
    [i \in 1..Len(file.rows) |->
        [j \in 1..Len(file.rows[i]) |->
            [k |-> transformHeader(file.header[j]),
             v |-> Str(transform(file.rows[i][j]))]]]

\* `${yyyy}-${mm}-${dd}`
formatDate(date) ==
    NatToStr(date.y) \o <<"-">> \o Pad2(date.m) \o <<"-">> \o Pad2(date.d)

\* diffToMonday without the case of a Sunday
diffToMonday_everyDayAlike(day) == 1 - day

diffToMonday(day) == IF day = 0 THEN -6 ELSE 1 - day

\* the Monday-start week label of a valid Date with time value t
MondayLabel(t, zone) ==
    formatDate(CivilFromDays(LocalDay(t, zone) + diffToMonday(GetDay(t, zone))))

\* WeekMissing that takes only the lower-case spelling for unknown
WeekMissing_lowerCaseOnly(obj) ==
    LET w == Get(obj, kWeek)
    IN  \/ ~Truthy(w)
        \/ Trim(String(w)) = <<>>
        \/ String(w) = sunknown

\* the condition under which parseCSV sets obj.Week
WeekMissing(obj) ==
    LET w == Get(obj, kWeek)
    IN  \/ ~Truthy(w)
        \/ Trim(String(w)) = <<>>
        \/ ToLowerCase(String(w)) = sunknown

\* the label of the Date d = new Date(appt)
labelOfDate(d, zone) ==
    IF d = NaN THEN Str(sUnknown) ELSE Str(MondayLabel(d.n, zone))

\* the week label derived from appt
labelOfAppt(appt, zone, legacy) ==
    IF ~Truthy(appt) THEN Str(sUnknown)
    ELSE labelOfDate(DateParse(String(appt), zone, legacy), zone)

\* const appt = obj.AppointmentDay || obj.Appointment || obj.AppointmentDate
apptOf(obj) ==
    Or(Or(Get(obj, kAppointmentDay), Get(obj, kAppointment)), Get(obj, kAppointmentDate))

\* obj.Week after the week-label step
WeekLabel(obj, zone, legacy) ==
    IF ~WeekMissing(obj) THEN Get(obj, kWeek)
    ELSE labelOfAppt(apptOf(obj), zone, legacy)

\* the four steps of the body of parseCSV's map, each on the object the
\* step before left
setWeek(obj, zone, legacy) ==
    IF WeekMissing(obj) THEN Set(obj, kWeek, WeekLabel(obj, zone, legacy)) ELSE obj

normalizeSms(obj) ==
    IF Get(obj, kSMS_received) # Undef
    THEN Set(obj, kSMS_received, toBin01(Get(obj, kSMS_received))) ELSE obj

normalizeNoShow(obj) ==
    IF Get(obj, kNoShow) # Undef THEN Set(obj, kNoShow, toNum(Get(obj, kNoShow))) ELSE obj

normalizeWaitingDays(obj) ==
    IF Get(obj, kWaitingDays) # Undef
    THEN Set(obj, kWaitingDays, toNum(Get(obj, kWaitingDays))) ELSE obj

\* the body of parseCSV's map: the object is updated in place and returned
ParseRecord(obj, zone, legacy) ==
    normalizeWaitingDays(normalizeNoShow(normalizeSms(setWeek(obj, zone, legacy))))

parseCSV(file, zone, legacy) ==
    LET data == PapaData(file)
    IN  Arr([i \in 1..Len(data) |-> ParseRecord(data[i], zone, legacy)])

-----------------------------------------------------------------------------
(* Derived values of the component (useMemo), as functions of their inputs. *)
(* A percentage with one decimal is held as Pct(tenths): 33.3 is Pct(333);  *)
(* NaN is the value NaN.                                                    *)

Pct(x) == [t |-> "pct", tenths |-> x]

\* ((n / total) * 100).toFixed(1) read as a number: NaN for 0 / 0, else the
\* percentage rounded to one decimal (halves round up)
PercentFixed1(n, total) ==
    IF total = 0 THEN NaN ELSE Pct((2000 * n + total) \div (2 * total))

IsNoShow(r) == Get(r, kNoShow) = Num(1)

\* rows.filter((row) => row.NoShow === 1).length
CountNoShows(rows) == Cardinality({i \in 1..Len(rows) : IsNoShow(rows[i])})

\* filteredData with the week test left out
filteredData_noWeek(data, f) ==
    IF data = Null THEN <<>>
    ELSE LET Pass(r) ==
                 /\ ~(f.ageGroup # sAll /\ Get(r, kAgeGroup) # Str(f.ageGroup))
                 /\ ~(f.smsReceived # sAll /\ Get(r, kSMS_received) # Str(f.smsReceived))
         IN  SelectSeq(data.a, Pass)

filteredData(data, f) ==
    IF data = Null THEN <<>>
    ELSE LET Pass(r) ==
                 /\ ~(f.ageGroup # sAll /\ Get(r, kAgeGroup) # Str(f.ageGroup))
                 /\ ~(f.smsReceived # sAll /\ Get(r, kSMS_received) # Str(f.smsReceived))
                 /\ ~(f.week # sAll /\ Get(r, kWeek) # Str(f.week))
         IN  SelectSeq(data.a, Pass)

kpis(fd) ==
    IF Len(fd) = 0 THEN [total |-> 0, noShows |-> 0, shows |-> 0, noShowRate |-> Pct(0)]
    ELSE LET total == Len(fd)
             noShows == CountNoShows(fd)
         IN  [total |-> total, noShows |-> noShows, shows |-> total - noShows,
              noShowRate |-> PercentFixed1(noShows, total)]

overallKpis(data) ==
    IF data = Null THEN [total |-> 0, noShows |-> 0, noShowRate |-> Pct(0)]
    ELSE LET total == Len(data.a)
             noShows == CountNoShows(data.a)
         IN  [total |-> total, noShows |-> noShows,
              noShowRate |-> PercentFixed1(noShows, total)]

\* Array.prototype.sort(compare) for a consistent comparator: the stable sort
\* (cmp[j, i] is the comparator's result for s[j] and s[i])
SortBy(s, cmp) ==
    LET Before(j, i) == cmp[j, i] < 0 \/ (cmp[j, i] = 0 /\ j < i)
        Pos(i) == 1 + Cardinality({j \in 1..Len(s) : j # i /\ Before(j, i)})
    IN  [p \in 1..Len(s) |-> s[CHOOSE i \in 1..Len(s) : Pos(i) = p]]

RECURSIVE LeadingDigits(_)
LeadingDigits(s) ==
    IF s # <<>> /\ IsDigit(Head(s)) THEN <<Head(s)>> \o LeadingDigits(Tail(s)) ELSE <<>>

\* getNum of sortAgeGroups: String(str).match(/^(\d+)/), parseInt or 999
getNum(str) ==
    IF LeadingDigits(str) = <<>> THEN 999 ELSE ParseNat(LeadingDigits(str))

sortAgeGroups(a, b) ==
    IF a = sUnknown THEN 1
    ELSE IF b = sUnknown THEN -1
    ELSE getNum(a) - getNum(b)

\* the group labels of the rows, in order of first occurrence (the key order
\* of the object the forEach fills)
GroupNames(labels) ==
    LET First(i) == \A j \in 1..(i - 1) : labels[j] # labels[i]
        firsts == {i \in 1..Len(labels) : First(i)}
        Nth(k) == CHOOSE i \in firsts : Cardinality({j \in firsts : j < i}) = k - 1
    IN  [k \in 1..Cardinality(firsts) |-> labels[Nth(k)]]

\* ageGroups and weekGroups are object literals ({}): a label that names a
\* property every object inherits from Object.prototype reads as truthy in
\* !groups[label], so no group of its own is made for it, the ++ lands on the
\* inherited value, and Object.values(groups) does not list it. The inherited
\* names the labels of the files reach:
sconstructor == <<"c", "o", "n", "s", "t", "r", "u", "c", "t", "o", "r">>
ObjectPrototypeNames == {sconstructor}

\* the own keys of the groups object after the forEach, in insertion order
OwnGroupNames(labels) ==
    LET IsOwn(name) == name \notin ObjectPrototypeNames
    IN  SelectSeq(GroupNames(labels), IsOwn)

\* one group of chartData: NoShow counts the rows with NoShow === 1, Show all
\* the others; total, rate and noShows are added by the map
Bucket(name, fd, labels) ==
    LET members == {i \in 1..Len(fd) : labels[i] = name}
        noShow == Cardinality({i \in members : IsNoShow(fd[i])})
        show == Cardinality(members) - noShow
        total == noShow + show
    IN  [name |-> name, NoShow |-> noShow, Show |-> show, total |-> total,
         rate |-> IF total > 0 THEN PercentFixed1(noShow, total) ELSE Pct(0),
         noShows |-> noShow]

ageLabel(r) ==
    LET a == Get(r, kAgeGroup) IN IF Truthy(a) THEN String(a) ELSE sUnknown

byAge(fd) ==
    LET labels == [i \in 1..Len(fd) |-> ageLabel(fd[i])]
        names == OwnGroupNames(labels)
        groups == [k \in 1..Len(names) |-> Bucket(names[k], fd, labels)]
        cmp == [j \in 1..Len(names), i \in 1..Len(names) |->
                   sortAgeGroups(names[j], names[i])]
    IN  SortBy(groups, cmp)

sSMSSent == <<"S", "M", "S", " ", "S", "e", "n", "t">>
sNoSMS == <<"N", "o", " ", "S", "M", "S">>

smsLabel(r) == IF Get(r, kSMS_received) = Str(<<"1">>) THEN sSMSSent ELSE sNoSMS

bySMS(fd) ==
    LET labels == [i \in 1..Len(fd) |-> smsLabel(fd[i])]
    IN  << Bucket(sSMSSent, fd, labels), Bucket(sNoSMS, fd, labels) >>

weekLabelOf(r) ==
    LET w == Get(r, kWeek) IN IF Truthy(w) THEN String(w) ELSE sUnknown

\* the comparator of the byWeek sort; a NaN difference compares as equal
\* new Date(a) - new Date(b)
dateDifference(da, db) == IF da = NaN \/ db = NaN THEN 0 ELSE da.n - db.n

sortWeeks(a, b, zone, legacy) ==
    IF a = sUnknown THEN 1
    ELSE IF b = sUnknown THEN -1
    ELSE dateDifference(DateParse(a, zone, legacy), DateParse(b, zone, legacy))

byWeek(fd, zone, legacy) ==
    LET labels == [i \in 1..Len(fd) |-> weekLabelOf(fd[i])]
        names == OwnGroupNames(labels)
        groups == [k \in 1..Len(names) |-> Bucket(names[k], fd, labels)]
        cmp == [j \in 1..Len(names), i \in 1..Len(names) |->
                   sortWeeks(names[j], names[i], zone, legacy)]
    IN  SortBy(groups, cmp)

\* the names of the five waiting-time bins, in the key order of waitingBins
BinNames ==
    << <<"0", " ", "d", "a", "y", "s">>,
       <<"1", "-", "3", " ", "d", "a", "y", "s">>,
       <<"4", "-", "7", " ", "d", "a", "y", "s">>,
       <<"8", "-", "1", "4", " ", "d", "a", "y", "s">>,
       <<"1", "5", "+", " ", "d", "a", "y", "s">> >>

\* the bin (1..5) of a resolved waiting-days value
binOf(days) ==
    IF days = 0 THEN 1
    ELSE IF days <= 3 THEN 2
    ELSE IF days <= 7 THEN 3
    ELSE IF days <= 14 THEN 4
    ELSE 5

\* the body of the forEach that fills waitingBins: a row with unresolved
\* waiting days is skipped, any other row is tallied in its bin
\* tallyWaiting that also skips a row whose waiting days are negative
tallyWaiting_skipNegative(bins, r, days) ==
    IF days = Null \/ days.n < 0 THEN bins
    ELSE [bins EXCEPT ![binOf(days.n)] =
             [total |-> @.total + 1,
              noShows |-> @.noShows + (IF IsNoShow(r) THEN 1 ELSE 0)]]

tallyWaiting(bins, r, days) ==
    IF days = Null THEN bins
    ELSE [bins EXCEPT ![binOf(days.n)] =
             [total |-> @.total + 1,
              noShows |-> @.noShows + (IF IsNoShow(r) THEN 1 ELSE 0)]]

RECURSIVE waitingBins(_, _, _)
waitingBins(fd, zone, legacy) ==
    IF Len(fd) = 0 THEN [b \in 1..5 |-> [total |-> 0, noShows |-> 0]]
    ELSE tallyWaiting(waitingBins(SubSeq(fd, 1, Len(fd) - 1), zone, legacy),
                      fd[Len(fd)], getWaitingDays(fd[Len(fd)], zone, legacy))

\* binChart without the bin.total > 0 guard
binChart_unguarded(bins) ==
    [b \in 1..5 |->
        [name |-> BinNames[b],
         rate |-> PercentFixed1(bins[b].noShows, bins[b].total),
         n |-> bins[b].total,
         noShows |-> bins[b].noShows]]

\* Object.values(waitingBins).map(...)
binChart(bins) ==
    [b \in 1..5 |->
        [name |-> BinNames[b],
         rate |-> IF bins[b].total > 0
                  THEN PercentFixed1(bins[b].noShows, bins[b].total) ELSE Pct(0),
         n |-> bins[b].total,
         noShows |-> bins[b].noShows]]

byWaitingDays(fd, zone, legacy) == binChart(waitingBins(fd, zone, legacy))

waitingDaysStats(fd, zone, legacy) ==
    IF Len(fd) = 0 THEN [validCount |-> 0, excludedCount |-> 0]
    ELSE LET validCount ==
                 Cardinality({i \in 1..Len(fd) : getWaitingDays(fd[i], zone, legacy) # Null})
         IN  [validCount |-> validCount, excludedCount |-> Len(fd) - validCount]

\* the body of chartData, on the values of its dependencies
chartDataOf(fd, k, zone, legacy) ==
    IF Len(fd) = 0
    THEN [byAge |-> <<>>, bySMS |-> <<>>, byWeek |-> <<>>, byWaitingDays |-> <<>>,
          pieData |-> <<>>]
    ELSE [byAge |-> byAge(fd), bySMS |-> bySMS(fd), byWeek |-> byWeek(fd, zone, legacy),
          byWaitingDays |-> byWaitingDays(fd, zone, legacy),
          pieData |-> << k.shows, k.noShows >>]

chartData(fd, zone, legacy) == chartDataOf(fd, kpis(fd), zone, legacy)

-----------------------------------------------------------------------------
(* Doubles. The difference of two rates is computed in IEEE 754 binary64.   *)
(* The magnitude of a double below 128 is held in units of 2^-F64.frac,  *)
(* as a sequence of bits, most significant first.                           *)

\* int bits before and frac bits after the binary point; a double keeps sig
\* significant bits
F64 == [int |-> 7, frac |-> 58, sig |-> 53]

\* the w-bit numeral of n
RECURSIVE BitsOfNat(_, _)
BitsOfNat(n, w) == IF w = 0 THEN <<>> ELSE BitsOfNat(n \div 2, w - 1) \o <<n % 2>>

\* the first k binary digits of r / 10, for r in 0 .. 9
RECURSIVE TenthBits(_, _)
TenthBits(r, k) ==
    IF k = 0 THEN <<>> ELSE <<(2 * r) \div 10>> \o TenthBits((2 * r) % 10, k - 1)

\* the integer n as a double
F64OfNat(n) == BitsOfNat(n, F64.int) \o [i \in 1..F64.frac |-> 0]

\* the place of the leading one bit, 0 if there is none
LeadingOne(b) ==
    IF \A i \in 1..Len(b) : b[i] = 0 THEN 0
    ELSE CHOOSE i \in 1..Len(b) : b[i] = 1 /\ \A j \in 1..(i - 1) : b[j] = 0

\* b + 1: the last zero bit becomes one and the ones after it zero
Increment(b) ==
    [i \in 1..Len(b) |->
        IF \E j \in (i + 1)..Len(b) : b[j] = 0 THEN b[i] ELSE 1 - b[i]]

\* round to nearest, ties to even, keeping the bits up to place last; sticky
\* says that the exact value has digits beyond the last bit of b
RoundAt(b, last, sticky) ==
    IF last >= Len(b) THEN b
    ELSE LET up == /\ b[last + 1] = 1
                   /\ \/ sticky
                      \/ b[last] = 1
                      \/ \E i \in (last + 2)..Len(b) : b[i] = 1
         IN  (IF up THEN Increment(SubSeq(b, 1, last)) ELSE SubSeq(b, 1, last))
                 \o [i \in 1..(Len(b) - last) |-> 0]

RoundToDouble(b, sticky) ==
    IF LeadingOne(b) = 0 THEN b
    ELSE RoundAt(b, LeadingOne(b) + F64.sig - 1, sticky)

\* parseFloat of a toFixed(1) string of t tenths: the double nearest t / 10
parseFloatTenths(t) ==
    RoundToDouble(BitsOfNat(t \div 10, F64.int) \o TenthBits(t % 10, F64.frac),
                  t % 10 # 0)

LessBits(a, b) ==
    \E i \in 1..Len(a) : a[i] < b[i] /\ \A j \in 1..(i - 1) : a[j] = b[j]

\* a - b on bit sequences of one length, a >= b: a place borrows when the
\* bits of a after it are less than those of b
SubtractBits(a, b) ==
    [i \in 1..Len(a) |->
        (a[i] - b[i]
           - (IF LessBits(SubSeq(a, i + 1, Len(a)), SubSeq(b, i + 1, Len(b))) THEN 1 ELSE 0)
           + 2) % 2]

\* x - y of two doubles, as sign and magnitude
f64Subtract(x, y) ==
    IF LessBits(x, y)
    THEN [t |-> "f64", neg |-> TRUE, mag |-> RoundToDouble(SubtractBits(y, x), FALSE)]
    ELSE [t |-> "f64", neg |-> FALSE, mag |-> RoundToDouble(SubtractBits(x, y), FALSE)]

-----------------------------------------------------------------------------
(* Insights. A text is held as its kind and the values it is built from. *)

activeFilterCount(f) ==
    (IF f.ageGroup # sAll THEN 1 ELSE 0) + (IF f.smsReceived # sAll THEN 1 ELSE 0)
    + (IF f.week # sAll THEN 1 ELSE 0)

\* absDiff and rateDiff decide the insight; a NaN difference fails every
\* comparison and falls to the last branch; 1 and 3 are doubles
segmentInsight(rateDiff) ==
    IF rateDiff = NaN THEN "better"
    ELSE IF LessBits(rateDiff.mag, F64OfNat(1)) THEN "similar"
    ELSE IF ~rateDiff.neg /\ LessBits(F64OfNat(3), rateDiff.mag) THEN "elevated"
    ELSE IF ~rateDiff.neg /\ LeadingOne(rateDiff.mag) # 0 THEN "slightlyElevated"
    ELSE IF rateDiff.neg /\ LessBits(F64OfNat(3), rateDiff.mag) THEN "significantlyBetter"
    ELSE "better"

\* parseFloat(kpis.noShowRate) - parseFloat(overallKpis.noShowRate)
rateDifference(filteredRate, overallRate) ==
    IF filteredRate = NaN \/ overallRate = NaN THEN NaN
    ELSE f64Subtract(parseFloatTenths(filteredRate.tenths),
                     parseFloatTenths(overallRate.tenths))

\* the summary and insight of a filtered view
filteredViewSummary(k, overall, rateDiff) ==
    [kind |-> "filtered", total |-> k.total, rate |-> k.noShowRate,
     overallRate |-> overall.noShowRate,
     comparison |-> IF rateDiff # NaN /\ ~rateDiff.neg /\ LeadingOne(rateDiff.mag) # 0
                    THEN "higher" ELSE "lower",
     insight |-> segmentInsight(rateDiff)]

\* the body of currentViewSummary, on the values of its dependencies
currentViewSummaryOf(data, k, overall, count) ==
    IF data = Null THEN Null
    ELSE IF count = 0
    THEN [kind |-> "all", total |-> overall.total,
          rate |-> overall.noShowRate, insight |-> "applyFilters"]
    ELSE filteredViewSummary(k, overall, rateDifference(k.noShowRate, overall.noShowRate))

currentViewSummary(data, f) ==
    currentViewSummaryOf(data, kpis(filteredData(data, f)), overallKpis(data),
                         activeFilterCount(f))

\* withSMS.length ? ((count / withSMS.length) * 100).toFixed(1) : '0.0'
rateOrZero(n, total) == IF total > 0 THEN PercentFixed1(n, total) ELSE Pct(0)

\* the rows of fd whose SMS_received is the string v
smsRows(fd, v) == SelectSeq(fd, LAMBDA r : Get(r, kSMS_received) = Str(v))

\* smsComparison of keyTakeaways
smsComparison(withSMS, withoutSMS) ==
    [kind |-> "sms",
     smsRate |-> rateOrZero(CountNoShows(withSMS), Len(withSMS)), nSMS |-> Len(withSMS),
     noSmsRate |-> rateOrZero(CountNoShows(withoutSMS), Len(withoutSMS)),
     nNoSMS |-> Len(withoutSMS)]

\* overallRate of keyTakeaways
overallTakeaway(k) ==
    [kind |-> "overall", rate |-> k.noShowRate, noShows |-> k.noShows, total |-> k.total]

\* if (bin.total >= 50 && rate > maxRate)
MinBinTotal == 50

\* highestVolumeBin: the first bin of the largest total, null if all are empty
highestVolumeBin(bins) ==
    IF \A b \in 1..5 : bins[b].total = 0 THEN Null
    ELSE Num(CHOOSE b \in 1..5 :
                /\ \A c \in 1..5 : bins[c].total <= bins[b].total
                /\ \A c \in 1..(b - 1) : bins[c].total < bins[b].total)

\* highestRateBin: among the bins of at least MinBinTotal rows and a rate
\* above 0, the first of the largest rate
highestRateBin(bins) ==
    LET ok == {b \in 1..5 : bins[b].total >= MinBinTotal /\ bins[b].noShows > 0}
        More(b, c) == bins[b].noShows * bins[c].total > bins[c].noShows * bins[b].total
    IN  IF ok = {} THEN Null
        ELSE Num(CHOOSE b \in ok :
                    /\ \A c \in ok : ~More(c, b)
                    /\ \A c \in ok : c < b => More(b, c))

\* waitingInsight of keyTakeaways: '' when no bin holds a row
waitingInsight(bins, volume, rate) ==
    IF volume = Null THEN <<>>
    ELSE << [kind |-> "waiting", name |-> BinNames[volume.n],
             volumeRate |-> PercentFixed1(bins[volume.n].noShows, bins[volume.n].total),
             n |-> bins[volume.n].total,
             highestRate |-> IF rate = Null THEN Null ELSE Str(BinNames[rate.n])] >>

\* keyTakeaways with its bins tallied
takeawaysOf(fd, k, bins) ==
    << overallTakeaway(k),
       smsComparison(smsRows(fd, <<"1">>), smsRows(fd, <<"0">>)) >>
    \o waitingInsight(bins, highestVolumeBin(bins), highestRateBin(bins))

\* the body of keyTakeaways, on the values of its dependencies
keyTakeawaysOf(fd, k, zone, legacy) ==
    IF Len(fd) = 0 THEN <<>> ELSE takeawaysOf(fd, k, waitingBins(fd, zone, legacy))

keyTakeaways(fd, zone, legacy) == keyTakeawaysOf(fd, kpis(fd), zone, legacy)

\* (num / den).toFixed(1) for den > 0: the sign is kept apart (a negative
\* value that rounds to zero prints "-0.0"), halves round away from zero
Fixed1(num, den) ==
    [t |-> "fixed", neg |-> num < 0,
     tenths |-> (20 * (IF num < 0 THEN -num ELSE num) + den) \div (2 * den)]

\* rows.map(getWaitingDays).filter((days) => days !== null)
RECURSIVE waitTimes(_, _, _)
waitTimes(rows, zone, legacy) ==
    IF rows = <<>> THEN <<>>
    ELSE SelectSeq(<< getWaitingDays(Head(rows), zone, legacy) >>, LAMBDA d : d # Null)
         \o waitTimes(Tail(rows), zone, legacy)

\* .sort((a, b) => a - b)
sortNumbers(ds) ==
    SortBy(ds, [j \in 1..Len(ds), i \in 1..Len(ds) |-> ds[j].n - ds[i].n])

RECURSIVE sumOf(_)
sumOf(ds) == IF ds = <<>> THEN 0 ELSE Head(ds).n + sumOf(Tail(ds))

\* getMedian(arr).toFixed(1), arr sorted and not empty
getMedian(arr) ==
    IF Len(arr) % 2 = 0
    THEN Fixed1(arr[Len(arr) \div 2].n + arr[(Len(arr) \div 2) + 1].n, 2)
    ELSE Fixed1(arr[(Len(arr) \div 2) + 1].n, 1)

\* getMean(arr).toFixed(1)
getMean(arr) == Fixed1(sumOf(arr), Len(arr))

\* showedMean > 0 ? (noShowMean / showedMean).toFixed(1) : 'N/A'
ratioOf(showed, noShow) ==
    IF sumOf(showed) > 0
    THEN Fixed1(sumOf(noShow) * Len(showed), Len(noShow) * sumOf(showed))
    ELSE Str(<<"N", "/", "A">>)

\* waitingTimeComparison from the two sorted lists of waiting times
compareWaitTimes(showed, noShow) ==
    IF Len(showed) = 0 \/ Len(noShow) = 0 THEN Null
    ELSE [showedMedian |-> getMedian(showed), noShowMedian |-> getMedian(noShow),
          showedMean |-> getMean(showed), noShowMean |-> getMean(noShow),
          ratio |-> ratioOf(showed, noShow),
          showedCount |-> Len(showed), noShowCount |-> Len(noShow)]

waitingTimeComparison(fd, zone, legacy) ==
    IF Len(fd) = 0 THEN Null
    ELSE compareWaitTimes(
             sortNumbers(waitTimes(SelectSeq(fd, LAMBDA r : Get(r, kNoShow) = Num(0)),
                                   zone, legacy)),
             sortNumbers(waitTimes(SelectSeq(fd, IsNoShow), zone, legacy)))

\* the first group of the largest value of key (rate or total) among those
\* of a total above 0
firstHighest(groups, key) ==
    LET ok == {i \in 1..Len(groups) : groups[i].total > 0}
    IN  IF ok = {} THEN Null
        ELSE Num(CHOOSE i \in ok :
                    /\ \A j \in ok : key[j] <= key[i]
                    /\ \A j \in ok : j < i => key[j] < key[i])

\* the sum of the rates (in tenths) of the groups whose leading number is in
\* lo .. hi - 1, and how many they are
RECURSIVE rateSum(_, _, _)
rateSum(groups, lo, hi) ==
    IF groups = <<>> THEN [sum |-> 0, n |-> 0]
    ELSE LET rest == rateSum(Tail(groups), lo, hi)
             in == getNum(Head(groups).name) >= lo /\ getNum(Head(groups).name) < hi
         IN  IF in THEN [sum |-> rest.sum + Head(groups).rate.tenths, n |-> rest.n + 1]
             ELSE rest

\* youngerAvg > olderAvg + 2, an average over no group being 0 (the sums
\* and quotients are taken exactly)
youngerHigher(y, o) ==
    IF y.n = 0 THEN FALSE
    ELSE IF o.n = 0 THEN y.sum > 20 * y.n
    ELSE y.sum * o.n > o.sum * y.n + 20 * y.n * o.n

countInsight(groups, volume) ==
    IF volume = Null THEN Null
    ELSE [ageGroup |-> groups[volume.n].name, total |-> groups[volume.n].total]

rateInsight(groups, highest) ==
    IF highest = Null THEN Null
    ELSE [rate |-> groups[highest.n].rate, ageGroup |-> groups[highest.n].name,
          total |-> groups[highest.n].total,
          younger |-> youngerHigher(rateSum(groups, 10, 30), rateSum(groups, 50, 100))]

ageGroupInsight(groups) ==
    IF Len(groups) = 0 THEN [count |-> Null, rate |-> Null]
    ELSE [count |-> countInsight(groups,
                       firstHighest(groups, [i \in 1..Len(groups) |-> groups[i].total])),
          rate |-> rateInsight(groups,
                       firstHighest(groups, [i \in 1..Len(groups) |-> groups[i].rate.tenths]))]

\* maxRate of weeklyTrendInsight: the first week of the largest rate above 0,
\* { week: null, rate: 0 } if there is none
maxRateOf(weeks) ==
    LET ok == {i \in 1..Len(weeks) : weeks[i].rate.tenths > 0}
    IN  IF ok = {} THEN [week |-> Null, rate |-> Pct(0)]
        ELSE LET i == CHOOSE i \in ok :
                          /\ \A j \in ok : weeks[j].rate.tenths <= weeks[i].rate.tenths
                          /\ \A j \in ok : j < i => weeks[j].rate.tenths < weeks[i].rate.tenths
             IN  [week |-> Str(weeks[i].name), rate |-> weeks[i].rate]

\* weeklyTrendInsight from the weeks other than 'Unknown'
trendOf(validWeeks, peak) ==
    IF Len(validWeeks) = 0 THEN Null
    ELSE [peakRate |-> peak.rate, peakWeek |-> peak.week,
          trend |-> IF validWeeks[Len(validWeeks)].rate.tenths < validWeeks[1].rate.tenths
                    THEN "declined" ELSE "increased",
          lastRate |-> validWeeks[Len(validWeeks)].rate,
          lastWeek |-> validWeeks[Len(validWeeks)].name]

validWeeksOf(weeks) == SelectSeq(weeks, LAMBDA w : w.name # sUnknown)

weeklyTrendInsight(weeks) ==
    IF Len(weeks) = 0 THEN Null
    ELSE trendOf(validWeeksOf(weeks), maxRateOf(validWeeksOf(weeks)))

\* uniqueValues: the options of the age-group and week selects
uniqueAgeGroups(data) ==
    IF data = Null THEN {}
    ELSE {String(Get(data.a[i], kAgeGroup)) :
            i \in {j \in 1..Len(data.a) : Truthy(Get(data.a[j], kAgeGroup))}}

uniqueWeeks(data) ==
    IF data = Null THEN {}
    ELSE {String(Get(data.a[i], kWeek)) :
            i \in {j \in 1..Len(data.a) : Truthy(Get(data.a[j], kWeek))}}

uniqueValues(data) == [ageGroups |-> uniqueAgeGroups(data), weeks |-> uniqueWeeks(data)]

-----------------------------------------------------------------------------
(* The environment: the files a user can select, the browser *)

MaxRows == 2

TimeZones == {-5, 0, 2}

\* a file with the columns of the public dataset; Excel-style BOM and
\* non-breaking space in the header row
Header1 ==
    << <<"BOM", "A", "g", "e", "G", "r", "o", "u", "p">>,
       <<"S", "M", "S", "_", "r", "e", "c", "e", "i", "v", "e", "d">>,
       <<"N", "o", "S", "h", "o", "w">>,
       <<"W", "a", "i", "t", "i", "n", "g", "D", "a", "y", "s">>,
       <<"S", "c", "h", "e", "d", "u", "l", "e", "d", "D", "a", "y">>,
       <<"A", "p", "p", "o", "i", "n", "t", "m", "e", "n", "t", "D", "a", "y">>,
       <<"W", "e", "e", "k", "NBSP">> >>
Lines1 ==
    { << <<"2", "0", "-", "2", "9">>,
         <<"1">>,
         <<"1">>,
         <<"2", "0">>,
         <<"2", "0", "1", "6", "-", "0", "4", "-", "1", "2", "T", "0", "9", ":", "3", "0", ":", "0", "0", "Z">>,
         <<"2", "0", "1", "6", "-", "0", "5", "-", "0", "2", "T", "0", "0", ":", "0", "0", ":", "0", "0", "Z">>,
         <<>> >>,
      << <<"2", "0", "-", "2", "9">>,
         <<"0">>,
         <<"0">>,
         <<"5">>,
         <<"2", "0", "1", "6", "-", "0", "4", "-", "2", "7", "T", "1", "0", ":", "0", "0", ":", "0", "0", "Z">>,
         <<"2", "0", "1", "6", "-", "0", "5", "-", "0", "2", "T", "0", "0", ":", "0", "0", ":", "0", "0", "Z">>,
         <<"2", "0", "1", "6", "-", "0", "5", "-", "0", "2">> >>,
      << <<"5", "0", "-", "5", "9">>,
         <<"0">>,
         <<"1">>,
         <<>>,
         <<"2", "0", "1", "6", "-", "0", "4", "-", "2", "9", " ", "1", "8", ":", "3", "8", ":", "0", "8">>,
         <<"2", "0", "1", "6", "-", "0", "5", "-", "0", "9", "T", "0", "0", ":", "0", "0", ":", "0", "0", "Z">>,
         <<>> >>,
      << <<>>,
         <<"m", "a", "y", "b", "e">>,
         <<"x">>,
         <<>>,
         <<>>,
         <<>>,
         <<"u", "n", "k", "n", "o", "w", "n">> >>,
      << <<"U", "n", "k", "n", "o", "w", "n">>,
         <<"1", ".", "0">>,
         <<"2">>,
         <<"-", "3">>,
         <<>>,
         <<"s", "o", "o", "n">>,
         <<>> >>,
      << <<"5", "0", "-", "5", "9">>,
         <<"NBSP", "1">>,
         <<"0">>,
         <<"0">>,
         <<"2", "0", "1", "6", "-", "0", "4", "-", "2", "9", " ", "1", "8", ":", "3", "8", ":", "0", "8">>,
         <<"2", "0", "1", "6", "-", "0", "4", "-", "2", "9">>,
         <<"2", "0", "1", "6", "-", "0", "4", "-", "2", "5">> >>,
      << <<"c", "o", "n", "s", "t", "r", "u", "c", "t", "o", "r">>,
         <<"1">>,
         <<"1">>,
         <<"2">>,
         <<>>,
         <<"2", "0", "1", "6", "-", "0", "5", "-", "0", "2", "T", "0", "0", ":", "0", "0", ":", "0", "0", "Z">>,
         <<>> >> }

\* a file with aliased waiting-time columns and no age, SMS, date or week column
Header2 ==
    << <<"N", "o", "S", "h", "o", "w">>,
       <<"W", "a", "i", "t", "i", "n", "g", " ", "D", "a", "y", "s">>,
       <<"A", "w", "a", "i", "t", "i", "n", "g", "T", "i", "m", "e">> >>
Lines2 ==
    { << <<"1">>,
         <<"7">>,
         <<"9">> >>,
      << <<"0">>,
         <<>>,
         <<"-", "2">> >> }

SeqsUpTo(S, n) == UNION {[1..m -> S] : m \in 0..n}

\* the files: a header row and up to MaxRows lines (none: a header-only file)
Files ==
    {[header |-> Header1, rows |-> rs] : rs \in SeqsUpTo(Lines1, MaxRows)}
    \cup {[header |-> Header2, rows |-> rs] : rs \in SeqsUpTo(Lines2, MaxRows)}

-----------------------------------------------------------------------------
(* The component: state and event handlers *)

AllFilters == [ageGroup |-> sAll, smsReceived |-> sAll, week |-> sAll]

-----------------------------------------------------------------------------
(* The memoized stages. A render is held as r: the memoized values r.m, the *)
(* names r.ch of the states and stages whose identity changed in this       *)
(* render, the current states r.data and r.f, and r.first, which holds in   *)
(* the first render only.                                                   *)

\* the dependency arrays
activeFilterCountDeps == {"filters"}
filteredDataDeps_csvOnly == {"csvData"}
filteredDataDeps == {"csvData", "filters"}
kpisDeps == {"filteredData"}
overallKpisDeps == {"csvData"}
currentViewSummaryDeps == {"csvData", "filters", "kpis", "overallKpis", "activeFilterCount"}
waitingTimeComparisonDeps == {"filteredData"}
waitingDaysStatsDeps == {"filteredData"}
keyTakeawaysDeps == {"filteredData", "kpis"}
chartDataDeps == {"filteredData", "kpis"}
\* [chartData.byAge] and [chartData.byWeek]: arrays made anew with chartData
ageGroupInsightDeps == {"chartData"}
weeklyTrendInsightDeps == {"chartData"}
uniqueValuesDeps == {"csvData"}

StageNames ==
    {"activeFilterCount", "filteredData", "kpis", "overallKpis", "currentViewSummary",
     "waitingTimeComparison", "waitingDaysStats", "keyTakeaways", "chartData",
     "ageGroupInsight", "weeklyTrendInsight", "uniqueValues"}

\* useMemo(() => value, deps): the callback runs when a dependency changed,
\* and its result is a new object
useMemo(r, name, deps, value) ==
    IF ~r.first /\ deps \cap r.ch = {} THEN r
    ELSE [r EXCEPT !.m[name] = value, !.ch = @ \cup {name}]

\* useMemo of a number: dependants compare it by value
useMemoNumber(r, name, deps, value) ==
    IF ~r.first /\ deps \cap r.ch = {} THEN r
    ELSE [r EXCEPT !.m[name] = value,
                   !.ch = IF r.first \/ r.m[name] # value THEN @ \cup {name} ELSE @]

renderActiveFilterCount(r) ==
    useMemoNumber(r, "activeFilterCount", activeFilterCountDeps, activeFilterCount(r.f))

renderFilteredData(r) ==
    useMemo(r, "filteredData", filteredDataDeps, filteredData(r.data, r.f))

renderKpis(r) == useMemo(r, "kpis", kpisDeps, kpis(r.m.filteredData))

renderOverallKpis(r) == useMemo(r, "overallKpis", overallKpisDeps, overallKpis(r.data))

renderCurrentViewSummary(r) ==
    useMemo(r, "currentViewSummary", currentViewSummaryDeps,
            currentViewSummaryOf(r.data, r.m.kpis, r.m.overallKpis, r.m.activeFilterCount))

renderWaitingTimeComparison(r) ==
    useMemo(r, "waitingTimeComparison", waitingTimeComparisonDeps,
            waitingTimeComparison(r.m.filteredData, tz, lenient))

renderWaitingDaysStats(r) ==
    useMemo(r, "waitingDaysStats", waitingDaysStatsDeps,
            waitingDaysStats(r.m.filteredData, tz, lenient))

renderKeyTakeaways(r) ==
    useMemo(r, "keyTakeaways", keyTakeawaysDeps,
            keyTakeawaysOf(r.m.filteredData, r.m.kpis, tz, lenient))

renderChartData(r) ==
    useMemo(r, "chartData", chartDataDeps,
            chartDataOf(r.m.filteredData, r.m.kpis, tz, lenient))

renderAgeGroupInsight(r) ==
    useMemo(r, "ageGroupInsight", ageGroupInsightDeps, ageGroupInsight(r.m.chartData.byAge))

renderWeeklyTrendInsight(r) ==
    useMemo(r, "weeklyTrendInsight", weeklyTrendInsightDeps,
            weeklyTrendInsight(r.m.chartData.byWeek))

renderUniqueValues(r) == useMemo(r, "uniqueValues", uniqueValuesDeps, uniqueValues(r.data))

\* one run of the component function: the stages in the order of the source
Render(r) ==
    renderUniqueValues(renderWeeklyTrendInsight(renderAgeGroupInsight(renderChartData(
    renderKeyTakeaways(renderWaitingDaysStats(renderWaitingTimeComparison(
    renderCurrentViewSummary(renderOverallKpis(renderKpis(renderFilteredData(
    renderActiveFilterCount(r))))))))))))

\* the memoized values after the render that follows a change of the states
\* named in changed
Rerendered(m, changed, data, f) ==
    Render([m |-> m, ch |-> changed, data |-> data, f |-> f, first |-> FALSE]).m

\* the first render: every callback runs
Mounted ==
    Render([m |-> [n \in StageNames |-> Null], ch |-> {}, data |-> Null,
            f |-> AllFilters, first |-> TRUE]).m

Init ==
    /\ memo = Mounted
    /\ csvData = Null
    /\ filters = AllFilters
    /\ isLoading = FALSE
    /\ reader = "idle"
    /\ tz \in TimeZones
    /\ lenient \in BOOLEAN
    /\ row = <<>>
    /\ rawRow = <<>>
    /\ stage = "raw"
    /\ waiting = Undef
    /\ probe = [kind |-> "none"]

\* the file input is rendered only while no data is loaded and nothing loads
handleFileUpload ==
    /\ csvData = Null /\ ~isLoading /\ reader = "idle"
    /\ isLoading' = TRUE
    /\ reader' = "reading"
    /\ UNCHANGED <<csvData, filters, tz, lenient, memo, row, rawRow, stage, waiting, probe>>

\* reader.onload: the text is parsed and stored, the loader stays for 150 ms
readerOnLoad ==
    /\ reader = "reading"
    /\ \E file \in Files : csvData' = parseCSV(file, tz, lenient)
    /\ memo' = Rerendered(memo, {"csvData"}, csvData', filters)
    /\ reader' = "timer"
    /\ UNCHANGED <<filters, isLoading, tz, lenient, row, rawRow, stage, waiting, probe>>

\* reader.onload when parseCSV throws: the catch block
readerOnLoadCatch ==
    /\ reader = "reading"
    /\ isLoading' = FALSE
    /\ reader' = "idle"
    /\ UNCHANGED <<csvData, filters, tz, lenient, memo, row, rawRow, stage, waiting, probe>>

\* a timer callback that leaves the loader on
loaderTimeout_keepsLoading ==
    /\ reader = "timer"
    /\ reader' = "idle"
    /\ UNCHANGED <<csvData, filters, isLoading, tz, lenient, memo, row, rawRow, stage,
                   waiting, probe>>

\* setTimeout(() => setIsLoading(false), 150)
loaderTimeout ==
    /\ reader = "timer"
    /\ isLoading' = FALSE
    /\ reader' = "idle"
    /\ UNCHANGED <<csvData, filters, tz, lenient, memo, row, rawRow, stage, waiting, probe>>

readerOnError ==
    /\ reader = "reading"
    /\ isLoading' = FALSE
    /\ reader' = "idle"
    /\ UNCHANGED <<csvData, filters, tz, lenient, memo, row, rawRow, stage, waiting, probe>>

\* the dashboard (filters, charts) is rendered once data is loaded and the
\* loader is gone
DashboardShown == csvData # Null /\ ~isLoading

selectAgeGroup ==
    /\ DashboardShown
    /\ \E v \in {sAll} \cup memo.uniqueValues.ageGroups :
          filters' = [filters EXCEPT !.ageGroup = v]
    /\ memo' = Rerendered(memo, {"filters"}, csvData, filters')
    /\ UNCHANGED <<csvData, isLoading, reader, tz, lenient, row, rawRow, stage, waiting, probe>>

selectSmsReceived ==
    /\ DashboardShown
    /\ \E v \in {sAll, <<"1">>, <<"0">>} :
          filters' = [filters EXCEPT !.smsReceived = v]
    /\ memo' = Rerendered(memo, {"filters"}, csvData, filters')
    /\ UNCHANGED <<csvData, isLoading, reader, tz, lenient, row, rawRow, stage, waiting, probe>>

selectWeek ==
    /\ DashboardShown
    /\ \E v \in {sAll} \cup memo.uniqueValues.weeks :
          filters' = [filters EXCEPT !.week = v]
    /\ memo' = Rerendered(memo, {"filters"}, csvData, filters')
    /\ UNCHANGED <<csvData, isLoading, reader, tz, lenient, row, rawRow, stage, waiting, probe>>

\* the button is disabled while no filter is active
resetFilters ==
    /\ DashboardShown
    /\ memo.activeFilterCount > 0
    /\ filters' = AllFilters
    /\ memo' = Rerendered(memo, {"filters"}, csvData, filters')
    /\ UNCHANGED <<csvData, isLoading, reader, tz, lenient, row, rawRow, stage, waiting, probe>>

\* a bar click that also clears the other two filters
handleAgeGroupBarClick_clearsOthers ==
    /\ DashboardShown
    /\ \E bar \in Range(memo.chartData.byAge) :
          /\ bar.name # <<>>
          /\ filters' = [AllFilters EXCEPT !.ageGroup = bar.name]
    /\ memo' = Rerendered(memo, {"filters"}, csvData, filters')
    /\ UNCHANGED <<csvData, isLoading, reader, tz, lenient, row, rawRow, stage, waiting, probe>>

\* a click on a bar of the age-group chart
handleAgeGroupBarClick ==
    /\ DashboardShown
    /\ \E bar \in Range(memo.chartData.byAge) :
          /\ bar.name # <<>>
          /\ filters' = [filters EXCEPT !.ageGroup = bar.name]
    /\ memo' = Rerendered(memo, {"filters"}, csvData, filters')
    /\ UNCHANGED <<csvData, isLoading, reader, tz, lenient, row, rawRow, stage, waiting, probe>>

Next ==
    \/ handleFileUpload
    \/ readerOnLoad
    \/ readerOnLoadCatch
    \/ loaderTimeout
    \/ readerOnError
    \/ selectAgeGroup
    \/ selectSmsReceived
    \/ selectWeek
    \/ resetFilters
    \/ handleAgeGroupBarClick

Spec == Init /\ [][Next]_vars

\* the FileReader ends in onload or onerror, and the timer set by onload runs
SpecLive ==
    /\ Spec
    /\ WF_vars(readerOnError \/ readerOnLoadCatch \/ readerOnLoad)
    /\ WF_vars(loaderTimeout)

-----------------------------------------------------------------------------
(* The feature deriver on one row: a line of a file is put together field   *)
(* by field, goes through Papa's transforms and parseCSV's map, and its     *)
(* waiting days are resolved.                                               *)

MaxFields == 3

\* the header / cell pairs a line is built from
FieldChoices ==
    { << <<"W", "a", "i", "t", "i", "n", "g", "D", "a", "y", "s">>,
         <<"5">> >>,
      << <<"W", "a", "i", "t", "i", "n", "g", "D", "a", "y", "s">>,
         <<"-", "3">> >>,
      << <<"W", "a", "i", "t", "i", "n", "g", "D", "a", "y", "s">>,
         <<>> >>,
      << <<"W", "a", "i", "t", "i", "n", "g", " ", "D", "a", "y", "s">>,
         <<"7">> >>,
      << <<"W", "a", "i", "t", "i", "n", "g", "D", "a", "y", "s", "_">>,
         <<"1">> >>,
      << <<"W", "a", "i", "t", "i", "n", "g", "D", "a", "y", "s", "_", "n", "o", "r", "m", "a", "l", "i", "z", "e", "d">>,
         <<"2">> >>,
      << <<"A", "w", "a", "i", "t", "i", "n", "g", "T", "i", "m", "e">>,
         <<"9">> >>,
      << <<"S", "c", "h", "e", "d", "u", "l", "e", "d", "D", "a", "y">>,
         <<"2", "0", "1", "6", "-", "0", "4", "-", "2", "9", " ", "1", "8", ":", "3", "8", ":", "0", "8">> >>,
      << <<"S", "c", "h", "e", "d", "u", "l", "e", "d", "D", "a", "y">>,
         <<"g", "a", "r", "b", "a", "g", "e">> >>,
      << <<"A", "p", "p", "o", "i", "n", "t", "m", "e", "n", "t", "D", "a", "y">>,
         <<"2", "0", "1", "6", "-", "0", "4", "-", "2", "9">> >>,
      << <<"A", "p", "p", "o", "i", "n", "t", "m", "e", "n", "t", "D", "a", "y">>,
         <<"2", "0", "1", "6", "-", "0", "5", "-", "0", "9", "T", "0", "0", ":", "0", "0", ":", "0", "0", "Z">> >>,
      << <<"A", "p", "p", "o", "i", "n", "t", "m", "e", "n", "t", "_", "D", "a", "y">>,
         <<"2", "0", "1", "6", "-", "0", "5", "-", "0", "2">> >>,
      << <<"W", "e", "e", "k">>,
         <<" ", "2", "0", "1", "6", "-", "0", "5", "-", "0", "2">> >>,
      << <<"W", "e", "e", "k">>,
         <<"U", "n", "K", "n", "o", "w", "n", "NBSP">> >>,
      << <<"W", "e", "e", "k">>,
         <<" ">> >>,
      << <<"n", "o", "_", "s", "h", "o", "w">>,
         <<"1">> >>,
      << <<"S", "M", "S", "_", "r", "e", "c", "e", "i", "v", "e", "d">>,
         <<"NBSP", "1", ".", "0">> >>,
      << <<"S", "M", "S", "_", "r", "e", "c", "e", "i", "v", "e", "d">>,
         <<"-", "0">> >>,
      << <<"S", "M", "S", "_", "r", "e", "c", "e", "i", "v", "e", "d">>,
         <<" ", "m", "a", "y", "b", "e", " ">> >>,
      << <<"S", "M", "S", "_", "r", "e", "c", "e", "i", "v", "e", "d">>,
         <<"2">> >>,
      << <<"S", "M", "S", "_", "r", "e", "c", "e", "i", "v", "e", "d">>,
         <<>> >> }

addField ==
    /\ stage = "raw"
    /\ Len(row) < MaxFields
    /\ \E f \in FieldChoices :
          /\ ~HasKey(row, f[1])
          /\ row' = Append(row, [k |-> f[1], v |-> Str(f[2])])
    /\ UNCHANGED <<csvData, filters, isLoading, reader, tz, lenient, memo, rawRow, stage, waiting, probe>>

\* Papa's transforms and the map of parseCSV, on the one line
normalizeRow ==
    /\ stage = "raw"
    /\ LET file == [header |-> [i \in 1..Len(row) |-> row[i].k],
                    rows |-> << [i \in 1..Len(row) |-> row[i].v.s] >>]
       IN  row' = parseCSV(file, tz, lenient).a[1]
    /\ rawRow' = row
    /\ stage' = "normalized"
    /\ UNCHANGED <<csvData, filters, isLoading, reader, tz, lenient, memo, waiting, probe>>

resolveRow ==
    /\ stage = "normalized"
    /\ waiting' = getWaitingDays(row, tz, lenient)
    /\ stage' = "resolved"
    /\ UNCHANGED <<csvData, filters, isLoading, reader, tz, lenient, memo, row, rawRow, probe>>

NextRow == addField \/ normalizeRow \/ resolveRow

SpecRow == Init /\ [][NextRow]_vars

-----------------------------------------------------------------------------
(* The insight derivations on datasets larger than the files above: a       *)
(* dataset is given by its counts, and each derivation is applied to the    *)
(* values its useMemo stage reads.                                           *)

\* kpis / overallKpis of a set of total rows of which noShows have NoShow 1
kpisOfCounts(total, noShows) ==
    [total |-> total, noShows |-> noShows, shows |-> total - noShows,
     noShowRate |-> IF total = 0 THEN Pct(0) ELSE PercentFixed1(noShows, total)]

\* the size of the loaded dataset, the sizes of a filtered view of it, and
\* the most no-shows in either
OverallTotal == 1000
ViewTotals == {50, 71, 200}
MaxOverallNoShows == 60
MaxViewNoShows == 6

\* a render with an active filter: the view holds viewTotal of the rows and
\* viewNoShows of the no-shows
summarizeView ==
    /\ probe.kind = "none"
    /\ \E viewTotal \in ViewTotals, viewNoShows \in 0..MaxViewNoShows,
          noShows \in 0..MaxOverallNoShows :
          /\ viewNoShows <= noShows
          /\ probe' = [kind |-> "summary",
                       k |-> kpisOfCounts(viewTotal, viewNoShows),
                       overall |-> kpisOfCounts(OverallTotal, noShows),
                       out |-> currentViewSummaryOf(Arr(<<>>),
                                  kpisOfCounts(viewTotal, viewNoShows),
                                  kpisOfCounts(OverallTotal, noShows), 1)]
    /\ UNCHANGED <<csvData, filters, isLoading, reader, tz, lenient, memo, row, rawRow,
                   stage, waiting>>

\* the totals and no-show counts a waiting-time bin is given
BinTotals == {0, 49, 50}
BinNoShows == {0, 10}

\* the second half of keyTakeaways on tallied waiting-time bins
rankWaitingBins ==
    /\ probe.kind = "none"
    /\ \E bins \in [1..5 -> [total : BinTotals, noShows : BinNoShows]] :
          /\ \A b \in 1..5 : bins[b].noShows <= bins[b].total
          /\ probe' = [kind |-> "bins", bins |-> bins,
                       out |-> waitingInsight(bins, highestVolumeBin(bins),
                                              highestRateBin(bins))]
    /\ UNCHANGED <<csvData, filters, isLoading, reader, tz, lenient, memo, row, rawRow,
                   stage, waiting>>

\* the appointment cells of the week derivation: the days of three weeks
\* (over a year's end, a leap day and a month's end), each as a date, as a
\* UTC time and as a local time
ApptWeekStarts == {EpochDay(2015, 12, 28), EpochDay(2016, 2, 26), EpochDay(2016, 4, 25)}
ApptTimes ==
    { <<>>,
      <<"T", "0", "0", ":", "0", "0", ":", "0", "0", "Z">>,
      <<"T", "2", "2", ":", "3", "0", ":", "0", "0", "Z">>,
      <<"T", "0", "1", ":", "1", "5", ":", "0", "0">> }

\* the week-label step of parseCSV on a record that has an AppointmentDay
\* and no Week
deriveWeek ==
    /\ probe.kind = "none"
    /\ \E start \in ApptWeekStarts, offset \in 0..6, time \in ApptTimes :
          probe' = [kind |-> "week",
                    appt |-> formatDate(CivilFromDays(start + offset)) \o time,
                    out |-> WeekLabel(<< [k |-> kAppointmentDay,
                                          v |-> Str(formatDate(CivilFromDays(start + offset))
                                                    \o time)] >>,
                                      tz, lenient)]
    /\ UNCHANGED <<csvData, filters, isLoading, reader, tz, lenient, memo, row, rawRow,
                   stage, waiting>>

NextInsight ==
    \/ summarizeView
    \/ rankWaitingBins
    \/ deriveWeek

SpecInsight == Init /\ [][NextInsight]_vars

-----------------------------------------------------------------------------
(* Properties *)

\* C1: the resolved waiting days of every row are null or a number >= 0,
\* whether they come from an explicit column or from the date fallback.
C1_WaitingDaysNeverNegative ==
    stage = "resolved" => (waiting = Null \/ (IsNum(waiting) /\ waiting.n >= 0))

\* C2: after parseCSV the NoShow of every record is 0, 1, null or absent.
C2_NoShowIsBinary ==
    csvData # Null =>
        \A i \in 1..Len(csvData.a) :
            Get(csvData.a[i], kNoShow) \in {Undef, Null, Num(0), Num(1)}

RECURSIVE SumTotals(_)
SumTotals(buckets) ==
    IF buckets = <<>> THEN 0 ELSE Head(buckets).total + SumTotals(Tail(buckets))

\* C3: for a non-empty filtered set, the bucket totals of the age-group, the
\* SMS and the week chart each add up to the number of filtered records.
C3_BucketTotalsPartition ==
    csvData # Null =>
        LET fd == filteredData(csvData, filters)
        IN  Len(fd) > 0 =>
                /\ SumTotals(byAge(fd)) = Len(fd)
                /\ SumTotals(bySMS(fd)) = Len(fd)
                /\ SumTotals(byWeek(fd, tz, lenient)) = Len(fd)

\* a rate of 0.0 .. 100.0, and 0 for a bucket without records
RateInRange(rate, total) ==
    /\ \E x \in 0..1000 : rate = Pct(x)
    /\ total = 0 => rate = Pct(0)

\* C4: every bucket of the four charts has a rate between 0 and 100, and a
\* rate of exactly 0 when its total is 0.
C4_BucketRatesInRange ==
    csvData # Null =>
        LET cd == chartData(filteredData(csvData, filters), tz, lenient)
        IN  /\ \A b \in Range(cd.byAge) \cup Range(cd.bySMS) \cup Range(cd.byWeek) :
                  RateInRange(b.rate, b.total)
            /\ \A b \in Range(cd.byWaitingDays) : RateInRange(b.rate, b.n)

\* C4 happens: the dashboard shows a view with an empty waiting-time bin and
\* an age group half of whose records are no-shows.
C4_Witness ==
    /\ DashboardShown
    /\ LET cd == chartData(filteredData(csvData, filters), tz, lenient)
       IN  /\ \E b \in Range(cd.byWaitingDays) : b.n = 0
           /\ \E b \in Range(cd.byWaitingDays) : b.n > 0
           /\ \E b \in Range(cd.byAge) : b.rate = Pct(500)

\* C5: neither the KPI no-show rate of the filtered set nor the overall
\* no-show rate is ever NaN, also after a file without data rows was loaded.
C5_RatesNeverNaN ==
    csvData # Null =>
        /\ kpis(filteredData(csvData, filters)).noShowRate # NaN
        /\ overallKpis(csvData).noShowRate # NaN

\* the filter of one dimension lets the record through
Matches(r, key, want) == want = sAll \/ Get(r, key) = Str(want)

\* the positions of the loaded records that every dimension lets through
PassingRows ==
    {i \in 1..Len(csvData.a) :
        /\ Matches(csvData.a[i], kAgeGroup, filters.ageGroup)
        /\ Matches(csvData.a[i], kSMS_received, filters.smsReceived)
        /\ Matches(csvData.a[i], kWeek, filters.week)}

\* the k-th smallest member of a set of positions
NthOf(I, k) == CHOOSE i \in I : Cardinality({j \in I : j < i}) = k - 1

\* C6: the filtered set holds exactly the records that pass all three
\* dimensions, in their original order, and all of them under All/All/All.
C6_FilterIsConjunction ==
    csvData # Null =>
        /\ filteredData(csvData, filters)
              = [k \in 1..Cardinality(PassingRows) |-> csvData.a[NthOf(PassingRows, k)]]
        /\ filters = AllFilters => filteredData(csvData, filters) = csvData.a

\* C6 happens: two dimensions are filtered, one of two records passes.
C6_Witness ==
    /\ DashboardShown
    /\ activeFilterCount(filters) >= 2
    /\ Len(csvData.a) = 2
    /\ Len(filteredData(csvData, filters)) = 1

\* the values the candidates of a row resolve to
CandidateNumbers(r) ==
    {toNum(candidates(r)[i]) : i \in 1..Len(candidates(r))} \ {Null}

\* C7: a parseable WaitingDays field is the resolved value also when both
\* dates parse, and whenever some candidate resolves the result is a
\* candidate's value, not the date difference.
C7_ExplicitBeatsDates ==
    stage = "resolved" =>
        /\ toNum(Get(row, kWaitingDays)) # Null => waiting = toNum(Get(row, kWaitingDays))
        /\ CandidateNumbers(row) # {} => waiting \in CandidateNumbers(row)

\* C7 happens: a row with WaitingDays and with two dates that give another
\* number of days has been resolved.
C7_Witness ==
    /\ stage = "resolved"
    /\ toNum(Get(row, kWaitingDays)) # Null
    /\ DateFallback(row, tz, lenient) # Null
    /\ DateFallback(row, tz, lenient) # toNum(Get(row, kWaitingDays))

\* C8: a parseable waiting-days field, matched by its exact name or by its
\* normalized header, is the resolved value whatever awaiting-time or
\* awaiting-days field the row has.
C8_WaitingDaysBeatsAwaiting ==
    stage = "resolved" =>
        LET w == FirstNumber(<< Get(row, kWaitingDays), pickField(row, swaitingdays) >>)
        IN  w # Null => waiting = w

\* the columns named as holding a scaled value
ScaledNames ==
    { <<"W", "a", "i", "t", "i", "n", "g", "D", "a", "y", "s", "_">>,
      <<"W", "a", "i", "t", "i", "n", "g", "D", "a", "y", "s", "_", "n", "o", "r", "m", "a", "l", "i", "z", "e", "d">> }

Unscaled(r) ==
    LET Keep(f) == f.k \notin ScaledNames IN SelectSeq(r, Keep)

\* C9: a column named as holding a scaled value is never used: the resolved
\* waiting days are those of the row without such columns.
C9_ScaledColumnNeverUsed ==
    stage = "resolved" => waiting = getWaitingDays(Unscaled(row), tz, lenient)

\* no candidate of the row resolves to a number
NoCandidate(r) == \A i \in 1..Len(candidates(r)) : toNum(candidates(r)[i]) = Null

\* C10: when no candidate resolves, the result is the number of whole days
\* from the scheduled to the appointment timestamp, 0 when that is negative,
\* and null when either timestamp is missing or does not parse.
C10_DateFallback ==
    stage = "resolved" /\ NoCandidate(row) =>
        LET scheduled == toDate(scheduledRaw(row), tz, lenient)
            appt == toDate(apptRaw(row), tz, lenient)
        IN  IF scheduled # Null /\ appt # Null
            THEN IF appt.n < scheduled.n THEN waiting = Num(0)
                 ELSE /\ IsNum(waiting)
                      /\ waiting.n * SecondsPerDay <= appt.n - scheduled.n
                      /\ appt.n - scheduled.n < (waiting.n + 1) * SecondsPerDay
            ELSE waiting = Null

\* C10 happens: a row scheduled after its appointment's midnight has been
\* resolved from its dates.
C10_Witness ==
    /\ stage = "resolved"
    /\ NoCandidate(row)
    /\ toDate(scheduledRaw(row), tz, lenient) # Null
    /\ toDate(apptRaw(row), tz, lenient) # Null
    /\ toDate(apptRaw(row), tz, lenient).n < toDate(scheduledRaw(row), tz, lenient).n

RECURSIVE SumN(_)
SumN(bins) == IF bins = <<>> THEN 0 ELSE Head(bins).n + SumN(Tail(bins))

\* the positions of the filtered records whose waiting days resolve
ResolvedRows(fd) == {i \in 1..Len(fd) : getWaitingDays(fd[i], tz, lenient) # Null}

\* C11: the five bins together hold exactly the filtered records whose
\* waiting days resolve: their totals add up to validCount, validCount is
\* the number of such records, and excludedCount is the rest.
C11_BinsHoldResolvedRows ==
    csvData # Null =>
        LET fd == filteredData(csvData, filters)
            stats == waitingDaysStats(fd, tz, lenient)
        IN  /\ stats.validCount = Cardinality(ResolvedRows(fd))
            /\ stats.excludedCount = Len(fd) - stats.validCount
            /\ SumN(chartData(fd, tz, lenient).byWaitingDays) = stats.validCount

\* C11 happens: the view holds a record with unresolved and a record with
\* negative waiting days.
C11_Witness ==
    /\ DashboardShown
    /\ LET fd == filteredData(csvData, filters)
       IN  /\ Len(fd) = 2
           /\ Cardinality(ResolvedRows(fd)) = 1
           /\ \E i \in ResolvedRows(fd) : getWaitingDays(fd[i], tz, lenient).n < 0

\* the names of a sequence of buckets, in order
NamesOf(buckets) == [i \in 1..Len(buckets) |-> buckets[i].name]

\* C12: for every filtered set, the empty one included, the SMS chart has
\* exactly the buckets "SMS Sent" and "No SMS" and the waiting-time chart has
\* exactly the five bins 0, 1-3, 4-7, 8-14, 15+ days, in that order.
C12_FixedBucketsAlwaysPresent ==
    csvData # Null =>
        LET cd == chartData(filteredData(csvData, filters), tz, lenient)
        IN  /\ NamesOf(cd.bySMS) = << sSMSSent, sNoSMS >>
            /\ NamesOf(cd.byWaitingDays) = BinNames

RECURSIVE SumShow(_)
SumShow(buckets) ==
    IF buckets = <<>> THEN 0 ELSE Head(buckets).Show + SumShow(Tail(buckets))

\* how many records of the view have a resolved NoShow other than 1
DefiniteShows(fd) ==
    Cardinality({i \in 1..Len(fd) : Get(fd[i], kNoShow) # Null /\ ~IsNoShow(fd[i])})

\* C13: a record whose NoShow is unresolved (null) is counted neither as a
\* show nor as a no-show: the shows of the KPIs and of the age, SMS and week
\* buckets count only records with a resolved NoShow.
C13_UnresolvedNoShowNotCounted ==
    csvData # Null =>
        LET fd == filteredData(csvData, filters)
            cd == chartData(fd, tz, lenient)
        IN  /\ kpis(fd).shows <= DefiniteShows(fd)
            /\ SumShow(cd.byAge) <= DefiniteShows(fd)
            /\ SumShow(cd.bySMS) <= DefiniteShows(fd)
            /\ SumShow(cd.byWeek) <= DefiniteShows(fd)

RECURSIVE SumNoShows(_)
SumNoShows(buckets) ==
    IF buckets = <<>> THEN 0 ELSE Head(buckets).noShows + SumNoShows(Tail(buckets))

\* the counts of the KPIs are the sums of the buckets' counts
KpisAreSumOf(k, buckets) ==
    /\ k.total = SumTotals(buckets)
    /\ k.noShows = SumNoShows(buckets)
    /\ k.shows = SumShow(buckets)

\* C14: for a non-empty filtered set the KPIs are those of one bucket over
\* the whole set: total is the number of filtered records, shows + noShows is
\* total, and each count is the sum of that count over the age-group, the SMS
\* and the week buckets.
C14_KpisAreSingleBucket ==
    csvData # Null =>
        LET fd == filteredData(csvData, filters)
            cd == chartData(fd, tz, lenient)
        IN  Len(fd) > 0 =>
                /\ kpis(fd).total = Len(fd)
                /\ kpis(fd).shows + kpis(fd).noShows = kpis(fd).total
                /\ KpisAreSumOf(kpis(fd), cd.byAge)
                /\ KpisAreSumOf(kpis(fd), cd.bySMS)
                /\ KpisAreSumOf(kpis(fd), cd.byWeek)

\* C15: when a dataset is loaded and the filtered set is empty, every
\* aggregate is zero or empty and no insight is produced: no key takeaway, no
\* current-view summary, no waiting-time comparison, no age-group insight and
\* no weekly-trend insight.
C15_EmptyViewHasNoInsight ==
    csvData # Null /\ Len(filteredData(csvData, filters)) = 0 =>
        LET fd == filteredData(csvData, filters)
            cd == chartData(fd, tz, lenient)
        IN  /\ kpis(fd) = [total |-> 0, noShows |-> 0, shows |-> 0, noShowRate |-> Pct(0)]
            /\ waitingDaysStats(fd, tz, lenient) = [validCount |-> 0, excludedCount |-> 0]
            /\ cd.byAge = <<>> /\ cd.bySMS = <<>> /\ cd.byWeek = <<>>
            /\ cd.byWaitingDays = <<>> /\ cd.pieData = <<>>
            /\ keyTakeaways(fd, tz, lenient) = <<>>
            /\ waitingTimeComparison(fd, tz, lenient) = Null
            /\ ageGroupInsight(cd.byAge) = [count |-> Null, rate |-> Null]
            /\ weeklyTrendInsight(cd.byWeek) = Null
            /\ currentViewSummary(csvData, filters) = Null

\* the cell of the raw row under the header k as Papa hands it to the map
\* (undefined without such a header)
RawCell(k) == IF HasKey(rawRow, k) THEN Str(transform(Get(rawRow, k).s)) ELSE Undef

\* the raw row has a week label that is neither blank nor "unknown"
RawWeekKept ==
    /\ HasKey(rawRow, kWeek)
    /\ RawCell(kWeek).s # <<>>
    /\ ToLowerCase(RawCell(kWeek).s) # sunknown

\* the appointment cell parseCSV reads from the raw row, undefined if none
RawAppointment == Or(Or(RawCell(kAppointmentDay), RawCell(kAppointment)), RawCell(kAppointmentDate))

\* s reads YYYY-MM-DD and is a Monday
IsMondayLabel(s) ==
    /\ Len(s) = 10
    /\ DateParse(s, 0, FALSE) # NaN
    /\ GetDay(DateParse(s, 0, FALSE).n, 0) = 1

\* C16: a normalized record has a non-empty week: a label that was present,
\* not blank and not "unknown" in any letter case is kept; otherwise the week
\* is "Unknown" when the appointment is missing or does not parse, and the
\* date of a Monday when it parses.
C16_WeekAlwaysSet ==
    stage # "raw" =>
        /\ IsStr(Get(row, kWeek)) /\ Get(row, kWeek).s # <<>>
        /\ RawWeekKept => Get(row, kWeek) = RawCell(kWeek)
        /\ ~RawWeekKept =>
              IF ~Truthy(RawAppointment) \/ DateParse(RawAppointment.s, tz, lenient) = NaN
              THEN Get(row, kWeek) = Str(sUnknown)
              ELSE IsMondayLabel(Get(row, kWeek).s)

\* C16 happens: a row whose week reads "UnKnown" and whose appointment
\* parses has been normalized.
C16_Witness ==
    /\ stage = "normalized"
    /\ HasKey(rawRow, kWeek) /\ ~RawWeekKept /\ RawCell(kWeek).s # <<>>
    /\ Truthy(RawAppointment)
    /\ DateParse(RawAppointment.s, tz, lenient) # NaN

\* the field names parseCSV and the filters read
CanonicalNames == {kNoShow, kSMS_received, kAgeGroup, kWeek, kAppointmentDay}

\* the header k of the raw row, or the canonical name it spells when the
\* raw row has no header of that name
CanonicalKey(k) ==
    LET spelt == {c \in CanonicalNames : normKey(k) = normKey(c) /\ ~HasKey(rawRow, c)}
    IN  IF spelt = {} THEN k ELSE CHOOSE c \in spelt : TRUE

\* the raw row with its headers replaced by the canonical names they spell
CanonicalRaw == [i \in 1..Len(rawRow) |-> [k |-> CanonicalKey(rawRow[i].k), v |-> rawRow[i].v]]

\* parseCSV on the one line r
ParsedLine(r) ==
    parseCSV([header |-> [i \in 1..Len(r) |-> r[i].k],
              rows |-> << [i \in 1..Len(r) |-> r[i].v.s] >>], tz, lenient).a[1]

\* the value of the canonical field c of a record, looked up by its name or,
\* without it, by a header that spells it
FieldOf(r, c) == IF HasKey(r, c) THEN Get(r, c) ELSE pickField(r, normKey(c))

\* C17: a record whose header spells a canonical field name in another case
\* or punctuation is normalized as if the canonical name had been used: each
\* canonical field has the value it has when the headers are canonical.
C17_AliasHeadersResolved ==
    stage # "raw" =>
        \A c \in CanonicalNames : FieldOf(row, c) = FieldOf(ParsedLine(CanonicalRaw), c)

\* the derived outputs recomputed from scratch from a record collection and
\* a FilterSet
FromScratch(data, f) ==
    [activeFilterCount |-> activeFilterCount(f),
     filteredData |-> filteredData(data, f),
     kpis |-> kpis(filteredData(data, f)),
     overallKpis |-> overallKpis(data),
     currentViewSummary |-> currentViewSummary(data, f),
     waitingTimeComparison |-> waitingTimeComparison(filteredData(data, f), tz, lenient),
     waitingDaysStats |-> waitingDaysStats(filteredData(data, f), tz, lenient),
     keyTakeaways |-> keyTakeaways(filteredData(data, f), tz, lenient),
     chartData |-> chartData(filteredData(data, f), tz, lenient),
     ageGroupInsight |->
         ageGroupInsight(chartData(filteredData(data, f), tz, lenient).byAge),
     weeklyTrendInsight |->
         weeklyTrendInsight(chartData(filteredData(data, f), tz, lenient).byWeek),
     uniqueValues |-> uniqueValues(data)]

\* C18: after any sequence of dataset loads and filter changes, every derived
\* output the component holds (filtered set, KPIs, overall KPIs, view summary,
\* waiting-time comparison and stats, takeaways, bucket sequences, insights,
\* select options) equals its value recomputed from scratch from the current
\* record collection and the current FilterSet: no memoized stage is stale.
C18_MemoNeverStale == memo = FromScratch(csvData, filters)

\* a loaded dataset under an active filter that keeps some rows and drops others
C18_Witness ==
    /\ DashboardShown
    /\ activeFilterCount(filters) > 0
    /\ Len(memo.filteredData) > 0
    /\ Len(memo.filteredData) < Len(csvData.a)
    /\ memo.currentViewSummary.kind = "filtered"

\* what the SMS flag of a raw string is to become: "1" or "0" when the
\* trimmed string is a number equal to 1 or 0, else the trimmed string
SmsExpected(v) ==
    IF Trim(v) # <<>> /\ Number(Trim(v)) = Num(1) THEN <<"1">>
    ELSE IF Trim(v) # <<>> /\ Number(Trim(v)) = Num(0) THEN <<"0">>
    ELSE Trim(v)

\* C19: the normalized SMS_received of a record is "1" when the raw value
\* (the cell as parseCSV's map receives it) numerically resolves to 1, "0"
\* when it resolves to 0, and otherwise the trimmed raw string unchanged;
\* toBin01 gives the empty string for a missing (undefined or null) value,
\* and every outcome is a string.
C19_SmsCanonicalized ==
    /\ toBin01(Undef) = Str(<<>>)
    /\ toBin01(Null) = Str(<<>>)
    /\ (stage # "raw" /\ HasKey(rawRow, kSMS_received)) =>
          /\ IsStr(Get(row, kSMS_received))
          /\ Get(row, kSMS_received) = Str(SmsExpected(RawCell(kSMS_received).s))

\* a normalized record whose SMS cell was rewritten to its canonical flag
C19_Witness ==
    /\ stage = "normalized"
    /\ HasKey(rawRow, kSMS_received)
    /\ Get(row, kSMS_received) \in {Str(<<"0">>), Str(<<"1">>)}
    /\ Get(row, kSMS_received) # RawCell(kSMS_received)

\* C20: normalization is idempotent: the per-record step of parseCSV (week
\* label, SMS flag, NoShow and WaitingDays coercion) applied to an already
\* normalized record gives the same record, with the same week, and
\* getWaitingDays resolves the same waiting days on it.
C20_NormalizationIdempotent ==
    stage # "raw" =>
        /\ ParseRecord(row, tz, lenient) = row
        /\ Get(ParseRecord(row, tz, lenient), kWeek) = Get(row, kWeek)
        /\ getWaitingDays(ParseRecord(row, tz, lenient), tz, lenient)
              = getWaitingDays(row, tz, lenient)
        /\ stage = "resolved" =>
              getWaitingDays(ParseRecord(row, tz, lenient), tz, lenient) = waiting

\* a resolved record whose week was derived from the appointment date and
\* whose WaitingDays cell was coerced to a number
C20_Witness ==
    /\ stage = "resolved"
    /\ ~HasKey(rawRow, kWeek)
    /\ Get(row, kWeek) # Str(sUnknown)
    /\ IsNum(Get(row, kWaitingDays))
    /\ waiting # Null

\* the fields of the FilterSet in which f and g differ
ChangedFields(f, g) == {n \in {"ageGroup", "smsReceived", "week"} : f[n] # g[n]}

\* C21: the FilterSet starts with all three fields "All"; a select change or
\* an age-group bar click sets only its own field and leaves the other two
\* fields and the record collection unchanged; reset sets all three fields
\* back to "All" and leaves the record collection unchanged.
C21_FilterFrame ==
    /\ filters = AllFilters
    /\ [][/\ selectAgeGroup => ChangedFields(filters, filters') \subseteq {"ageGroup"}
          /\ handleAgeGroupBarClick => ChangedFields(filters, filters') \subseteq {"ageGroup"}
          /\ selectSmsReceived => ChangedFields(filters, filters') \subseteq {"smsReceived"}
          /\ selectWeek => ChangedFields(filters, filters') \subseteq {"week"}
          /\ resetFilters => filters' = AllFilters
          /\ filters' # filters =>
                /\ csvData' = csvData
                /\ \/ Cardinality(ChangedFields(filters, filters')) = 1
                   \/ filters' = AllFilters]_vars

\* two filter dimensions have been set one after the other on a loaded dataset
C21_Witness ==
    /\ DashboardShown
    /\ filters.ageGroup # sAll
    /\ filters.week # sAll
    /\ filters.smsReceived = sAll

\* the class of a difference of d tenths of a percentage point
ClassOfTenths(d) ==
    IF d < 10 /\ -d < 10 THEN "similar"
    ELSE IF d > 30 THEN "elevated"
    ELSE IF d > 0 THEN "slightlyElevated"
    ELSE IF d < -30 THEN "significantlyBetter"
    ELSE "better"

\* C22: with a filter active, the difference d = filtered rate - overall rate
\* gets exactly one class: |d| < 1 similar; otherwise d > 3 elevated;
\* otherwise d > 0 slightly elevated; otherwise d < -3 significantly better;
\* otherwise better; and the direction word agrees with the sign of d.
C22_BaselineClass ==
    probe.kind = "summary" =>
        /\ probe.out.insight
              = ClassOfTenths(probe.k.noShowRate.tenths - probe.overall.noShowRate.tenths)
        /\ probe.out.comparison = "higher"
              <=> probe.k.noShowRate.tenths > probe.overall.noShowRate.tenths

\* the waiting-time bins of the probe that have the minimum support
SupportedBins == {b \in 1..5 : probe.bins[b].total >= MinBinTotal}

\* the probe's takeaway names a highest-rate bin
HighestRateReported == probe.out # <<>> /\ probe.out[1].highestRate # Null

\* bin c has a no-show rate at most that of bin b
RateAtMost(c, b) ==
    probe.bins[c].noShows * probe.bins[b].total <= probe.bins[b].noShows * probe.bins[c].total

\* C23: whenever a waiting-time bin has total >= 50, a highest-rate bin is
\* reported, and it is a bin with total >= 50 whose no-show rate is maximal
\* among the bins with total >= 50; when no bin has total >= 50, none is
\* reported (so a bin with total < 50 is never reported as highest-rate).
C23_HighestRateBin ==
    probe.kind = "bins" =>
        /\ SupportedBins # {} =>
              /\ HighestRateReported
              /\ \E b \in SupportedBins :
                    /\ probe.out[1].highestRate = Str(BinNames[b])
                    /\ \A c \in SupportedBins : RateAtMost(c, b)
        /\ SupportedBins = {} => ~HighestRateReported

\* the age-group buckets whose leading age is in lo .. hi
Cohort(lo, hi) ==
    {i \in 1..Len(memo.chartData.byAge) :
        getNum(memo.chartData.byAge[i].name) \in lo..hi}

\* the sum of the rates, in tenths, of the buckets in the set c
RECURSIVE CohortRateSum(_)
CohortRateSum(c) ==
    IF c = {} THEN 0
    ELSE LET i == CHOOSE j \in c : TRUE
         IN  memo.chartData.byAge[i].rate.tenths + CohortRateSum(c \ {i})

\* C24: the younger-vs-older flag is emitted only if both cohorts have at
\* least one age-group bucket (younger: leading age 10..29, older: 50..99)
\* and the average rate of the younger buckets exceeds that of the older
\* buckets by more than 2 percentage points; it is omitted when either
\* cohort has no bucket.
C24_CohortFlagNeedsSupport ==
    (DashboardShown /\ memo.ageGroupInsight.rate # Null
                    /\ memo.ageGroupInsight.rate.younger) =>
        /\ Cohort(10, 29) # {}
        /\ Cohort(50, 99) # {}
        /\ CohortRateSum(Cohort(10, 29)) * Cardinality(Cohort(50, 99))
              > CohortRateSum(Cohort(50, 99)) * Cardinality(Cohort(10, 29))
                + 20 * Cardinality(Cohort(10, 29)) * Cardinality(Cohort(50, 99))

\* the week buckets of the chart other than 'Unknown', in the chart's order
ValidWeekBuckets == validWeeksOf(memo.chartData.byWeek)

\* C25: whenever the weekly-trend insight is emitted, its peak week is one of
\* the valid (non-"Unknown") week buckets and its rate is the maximum rate
\* over the valid week buckets, and the trend is "declined" when the last
\* valid week's rate is below the first valid week's rate and "increased"
\* otherwise; the insight is absent when there is no valid week bucket.
C25_WeeklyTrendPeak ==
    DashboardShown =>
        /\ ValidWeekBuckets = <<>> => memo.weeklyTrendInsight = Null
        /\ memo.weeklyTrendInsight # Null =>
              /\ \E i \in 1..Len(ValidWeekBuckets) :
                    /\ memo.weeklyTrendInsight.peakWeek = Str(ValidWeekBuckets[i].name)
                    /\ memo.weeklyTrendInsight.peakRate = ValidWeekBuckets[i].rate
              /\ \A i \in 1..Len(ValidWeekBuckets) :
                    ValidWeekBuckets[i].rate.tenths <= memo.weeklyTrendInsight.peakRate.tenths
              /\ memo.weeklyTrendInsight.trend = "declined"
                    <=> ValidWeekBuckets[Len(ValidWeekBuckets)].rate.tenths
                           < ValidWeekBuckets[1].rate.tenths

\* the time value of the probe's appointment cell
ProbeAppt == DateParse(probe.appt, tz, lenient)

\* the day number of a YYYY-MM-DD label
LabelDay(s) == DateParse(s, 0, FALSE).n \div SecondsPerDay

CountedInBucket(name) == SelectSeq(memo.filteredData, LAMBDA r : ageLabel(r) = name)

\* C27: a click on the bar of a bucket of the age-group chart sets the
\* age-group filter to the bucket's name and leaves the other filters, and
\* the filtered set that results holds exactly the records that were counted
\* in that bucket; so too for the "Unknown" bucket, which also counts the
\* records whose AgeGroup is blank or missing.
C27_BarClickSelectsBucket ==
    [][handleAgeGroupBarClick =>
          /\ \E i \in 1..Len(memo.chartData.byAge) :
                filters'.ageGroup = memo.chartData.byAge[i].name
          /\ filters'.smsReceived = filters.smsReceived
          /\ filters'.week = filters.week
          /\ memo'.filteredData = CountedInBucket(filters'.ageGroup)]_vars

\* C28: selecting a file sets the loading flag, and in every outcome (a
\* successful parse, a parse exception, a read error) the flag eventually
\* returns to false; the record collection is replaced only by a successful
\* parse and is left unchanged by a parse exception or a read error.
C28_LoadingEnds ==
    /\ isLoading ~> ~isLoading
    /\ [][/\ handleFileUpload => isLoading'
          /\ csvData' # csvData => readerOnLoad
          /\ (readerOnLoadCatch \/ readerOnError) => csvData' = csvData]_vars

\* a successful parse after which the loader is gone
C28_Witness == csvData # Null /\ ~isLoading /\ reader = "idle"

\* the records of the filtered set that the reminder chart counts in the
\* bucket of the given name
CountedInSmsBucket(fd, name) == SelectSeq(fd, LAMBDA r : smsLabel(r) = name)

\* C29: the three views of reminder status agree for every filtered set: the
\* "with SMS" and "without SMS" counts of the key-takeaway SMS comparison
\* equal the totals of the "SMS Sent" and "No SMS" buckets, and the filter
\* smsReceived = "0" yields exactly the records counted in the "No SMS"
\* bucket; so too when a record has an SMS value other than "0" and "1" or
\* has no SMS field.
C29_SmsViewsAgree ==
    (DashboardShown /\ Len(memo.filteredData) > 0) =>
        /\ memo.keyTakeaways[2].nSMS = memo.chartData.bySMS[1].total
        /\ memo.keyTakeaways[2].nNoSMS = memo.chartData.bySMS[2].total
        /\ filters.smsReceived = sAll =>
              filteredData(csvData, [filters EXCEPT !.smsReceived = <<"0">>])
                  = CountedInSmsBucket(memo.filteredData, sNoSMS)

\* C30: week derivation and waiting-days resolution agree on the appointment
\* timestamp: for every record on which the date fallback of getWaitingDays
\* finds and parses an appointment timestamp (under any alias it recognizes,
\* Appointment_Day and the normalized-header matches included, and for date
\* strings with a space before the time), the week derived for the record is
\* the date of a Monday and not "Unknown".
C30_WeekAgreesWithFallback ==
    (stage = "resolved" /\ ~RawWeekKept /\ toDate(apptRaw(row), tz, lenient) # Null) =>
        /\ Get(row, kWeek) # Str(sUnknown)
        /\ IsMondayLabel(Get(row, kWeek).s)

====
